---- MODULE Spec2Model ----
(***************************************************************************)
(* A model of the clarusjs inference engine: the FactStorage index, the    *)
(* Agenda queue, the condition join (#checkRule), the salience conflict    *)
(* resolver, the run() loop with its AOP lifecycle and the truth           *)
(* maintenance pass.                                                       *)
(*                                                                         *)
(* JavaScript runs one job at a time: a drain (one call of run()) executes *)
(* synchronously until it reaches an await or a yield.  pc[d] = "loop" is  *)
(* the only position of a drain that is not a suspension point, so while a *)
(* drain is there nothing else may step (see Running).                     *)
(***************************************************************************)
EXTENDS Integers, Sequences, FiniteSets, TLC

VARIABLES facts, alphaNetwork, factIdCounter,   \* FactStorage
          agenda,                                \* Agenda.#tasks
          definitions,                           \* LeapEngine.#definitions (ids, insertion order)
          activations, activationCounter,        \* LeapEngine.#activations / #activationCounter
          pc, cur,                               \* one entry per call of run()
          taskSeq, lastDequeued, lastFired,      \* history: tasks pushed / last task shifted / last task that fired
          justif,                                \* history: consumed set behind each logically asserted fact
          tmsRetracted,                          \* history: the facts truth maintenance retracted
          stopped,                               \* history: a consumer left a drain with tasks pending
          probe                                  \* a direct call of one component: its input and result

vars == <<facts, alphaNetwork, factIdCounter, agenda, definitions, activations,
          activationCounter, pc, cur, taskSeq, lastDequeued, lastFired, justif,
          tmsRetracted, stopped, probe>>

engineVars == <<facts, alphaNetwork, factIdCounter, agenda, definitions, activations,
                activationCounter, pc, cur, taskSeq, lastDequeued, lastFired, justif,
                tmsRetracted, stopped>>

----------------------------------------------------------------------------
(* Bounds and input sets *)

MaxFacts == 3
MaxMatches == 3

Types == {"A", "B"}
Vals == {0, 1}
(* the facts the caller asserts, and the facts a hook asserts: <<type, v>> *)
CallFacts == { <<"A", 1>>, <<"B", 0>>, <<"B", 1>> }
HookFacts == { <<"A", 1>>, <<"B", 1>> }
Drains == {1, 2}
ErrorKinds == {"TypeError", "Error"}

----------------------------------------------------------------------------
(* Small helpers *)

Max(S) == CHOOSE x \in S : \A y \in S : y <= x
Min(S) == CHOOSE x \in S : \A y \in S : x <= y

RECURSIVE SortedSeq(_)
SortedSeq(S) == IF S = {} THEN <<>> ELSE <<Min(S)>> \o SortedSeq(S \ {Min(S)})

Range(s) == {s[i] : i \in 1..Len(s)}

RemoveFromSeq(s, x) == SelectSeq(s, LAMBDA y : y /= x)

Restrict(f, D) == [x \in D |-> f[x]]

----------------------------------------------------------------------------
(* Agenda *)

(* variant: the task goes to the front of the queue (unshift for push) *)
AgendaPushFront(tasks, task) == <<task>> \o tasks

AgendaPush(tasks, task) == Append(tasks, task)

(* variant: the head is read but stays queued (tasks[0] for shift) *)
AgendaRestPeek(tasks) == tasks

AgendaRest(tasks) == Tail(tasks)

(* variant: the task behind the head is dropped with it *)
AgendaShiftLossy(tasks) ==
    [task |-> Head(tasks), tasks |-> IF Len(tasks) > 1 THEN Tail(Tail(tasks)) ELSE <<>>]

AgendaShift(tasks) == [task |-> Head(tasks), tasks |-> AgendaRest(tasks)]

hasTasks(tasks) == Len(tasks) > 0

----------------------------------------------------------------------------
(* The engine's heap: the part of the state that the synchronous helpers   *)
(* (assertFact, retractFact, #truthMaintenance) read and write.            *)

Heap == [facts |-> facts, alphaNetwork |-> alphaNetwork, factIdCounter |-> factIdCounter,
         agenda |-> agenda, activations |-> activations, taskSeq |-> taskSeq,
         justif |-> justif, tmsRetracted |-> tmsRetracted]

NoMetadata == [logical |-> FALSE, producedBy |-> 0]

(* FactStorage *)

getFactEntry(h, id) == h.facts[id]

hasFact(h, id) == id \in DOMAIN h.facts

getFactsByType(h, type) ==
    IF type \in DOMAIN h.alphaNetwork THEN h.alphaNetwork[type] ELSE <<>>

(* variant: the identity is taken from the number of stored facts *)
StorageAssertBySize(h, type, v) ==
    LET factId == Cardinality(DOMAIN h.facts) + 1
        newFact == [type |-> type, v |-> v, _id |-> factId]
        bucket == SelectSeq(getFactsByType(h, type), LAMBDA x : x /= factId)
    IN [h EXCEPT !.factIdCounter = factId,
                 !.facts = [i \in DOMAIN h.facts \cup {factId} |->
                               IF i = factId THEN [fact |-> newFact, metadata |-> NoMetadata]
                               ELSE h.facts[i]],
                 !.alphaNetwork = [t \in DOMAIN h.alphaNetwork \cup {type} |->
                               IF t = type THEN Append(bucket, factId) ELSE h.alphaNetwork[t]]]

StorageAssert(h, type, v) ==
    LET factId == h.factIdCounter + 1
        newFact == [type |-> type, v |-> v, _id |-> factId]
        bucket == getFactsByType(h, type)
    IN [h EXCEPT !.factIdCounter = factId,
                 !.facts = [i \in DOMAIN h.facts \cup {factId} |->
                               IF i = factId THEN [fact |-> newFact, metadata |-> NoMetadata]
                               ELSE h.facts[i]],
                 !.alphaNetwork = [t \in DOMAIN h.alphaNetwork \cup {type} |->
                               IF t = type THEN Append(bucket, factId) ELSE h.alphaNetwork[t]]]

(* variant: the bucket of the type stays in the index when it becomes empty *)
StorageRetractKeepingBucket(h, factId) ==
    LET type == h.facts[factId].fact.type
        bucket == RemoveFromSeq(h.alphaNetwork[type], factId)
    IN [h EXCEPT !.facts = Restrict(h.facts, DOMAIN h.facts \ {factId}),
                 !.alphaNetwork = [t \in DOMAIN h.alphaNetwork |->
                                      IF t = type THEN bucket ELSE h.alphaNetwork[t]]]

StorageRetract(h, factId) ==
    LET type == h.facts[factId].fact.type
        bucket == RemoveFromSeq(h.alphaNetwork[type], factId)
        keep == IF bucket = <<>> THEN DOMAIN h.alphaNetwork \ {type} ELSE DOMAIN h.alphaNetwork
    IN [h EXCEPT !.facts = Restrict(h.facts, DOMAIN h.facts \ {factId}),
                 !.alphaNetwork = [t \in keep |-> IF t = type THEN bucket ELSE h.alphaNetwork[t]]]

(* LeapEngine.assertFact / retractFact: store, then push a task *)

NewTask(h, kind, fact) == [type |-> kind, fact |-> fact, seq |-> h.taskSeq + 1]

PushTask(h, kind, fact) ==
    [h EXCEPT !.agenda = AgendaPush(h.agenda, NewTask(h, kind, fact)),
              !.taskSeq = h.taskSeq + 1]

assertFact(h, type, v) ==
    LET h1 == StorageAssert(h, type, v)
    IN PushTask(h1, "assert", h1.facts[h1.factIdCounter].fact)

retractFact(h, factId) ==
    IF hasFact(h, factId)
    THEN PushTask(StorageRetract(h, factId), "retract", h.facts[factId].fact)
    ELSE h

----------------------------------------------------------------------------
(* Values.  JavaScript values are tagged so that typeof-style dispatch and *)
(* truthiness can be written down.                                         *)

Num(n) == [k |-> "num", n |-> n]
Str(s) == [k |-> "str", s |-> s]
Bool(b) == [k |-> "bool", b |-> b]
FactVal(f) == [k |-> "fact", f |-> f]
Undefined == [k |-> "undefined"]

Truthy(val) ==
    CASE val.k = "num" -> val.n /= 0
      [] val.k = "str" -> val.s /= ""
      [] val.k = "bool" -> val.b
      [] val.k = "fact" -> TRUE
      [] OTHER -> FALSE

(* the own properties of a stored fact object *)
FactKeys == {"type", "v", "_id"}

FieldValue(fact, key) ==
    CASE key = "type" -> Str(fact.type)
      [] key = "v" -> Num(fact.v)
      [] key = "_id" -> Num(fact._id)

----------------------------------------------------------------------------
(* AdvancedMatcher.match, for the pattern shapes the rules below use:      *)
(* wildcard, variable, primitive literal, and a keyed pattern over a fact. *)

ANY == [tag |-> "any"]
Var(name) == [tag |-> "var", name |-> name]
Lit(val) == [tag |-> "lit", val |-> val]

Bind(bindings, name, val) == [x \in DOMAIN bindings \cup {name} |->
                                 IF x = name THEN val ELSE bindings[x]]

matchValue(pattern, value, bindings) ==
    CASE pattern.tag = "any" -> [isMatch |-> TRUE, bindings |-> bindings]
      [] pattern.tag = "var" ->
            IF pattern.name \in DOMAIN bindings
            THEN [isMatch |-> bindings[pattern.name] = value, bindings |-> bindings]
            ELSE [isMatch |-> TRUE, bindings |-> Bind(bindings, pattern.name, value)]
      [] pattern.tag = "lit" -> [isMatch |-> pattern.val = value, bindings |-> bindings]

RECURSIVE matchKeys(_, _, _)
matchKeys(entries, fact, bindings) ==
    IF entries = <<>> THEN [isMatch |-> TRUE, bindings |-> bindings]
    ELSE LET key == Head(entries)[1]
             sub == Head(entries)[2]
         IN IF key \notin FactKeys THEN [isMatch |-> FALSE, bindings |-> bindings]
            ELSE LET result == matchValue(sub, FieldValue(fact, key), bindings)
                 IN IF ~result.isMatch THEN result
                    ELSE matchKeys(Tail(entries), fact, result.bindings)

match(pattern, fact, initialBindings) == matchKeys(pattern, fact, initialBindings)

----------------------------------------------------------------------------
(* The guard interpreter (#resolveGuardValue, #executeGuard) for the       *)
(* operators > , / and ===.  A result is an error or a value.  Division is *)
(* over the integers of Vals, where the quotient is exact.                 *)

Expr(e) == [tag |-> "expr", expr |-> e]

GuardOk(val) == [err |-> FALSE, val |-> val]
GuardErr == [err |-> TRUE, val |-> Undefined]

IsNumeric(val) == val.k \in {"num", "bool"}
ToNumber(val) == IF val.k = "bool" THEN (IF val.b THEN 1 ELSE 0) ELSE val.n

RECURSIVE executeGuard(_, _)
RECURSIVE resolveGuardValue(_, _)

resolveGuardValue(value, bindings) ==
    CASE value.tag = "var" ->
            IF value.name \in DOMAIN bindings THEN GuardOk(bindings[value.name])
            ELSE GuardOk(Undefined)
      [] value.tag = "expr" -> executeGuard(value.expr, bindings)
      [] OTHER -> GuardOk(value.val)

executeGuard(guard, bindings) ==
    IF guard = <<>> THEN GuardErr
    ELSE
    LET op == guard[1]
        args == Tail(guard)
        resolved == [i \in 1..Len(args) |-> resolveGuardValue(args[i], bindings)]
        argErr == \E i \in 1..Len(args) : resolved[i].err
        numeric2 == Len(args) = 2 /\ \A i \in 1..Len(args) : IsNumeric(resolved[i].val)
        n(i) == ToNumber(resolved[i].val)
    IN IF argErr THEN GuardErr
       ELSE CASE op = ">" -> IF numeric2 THEN GuardOk(Bool(n(1) > n(2))) ELSE GuardErr
              [] op = "/" -> IF ~numeric2 THEN GuardErr
                             ELSE IF n(2) = 0 THEN GuardErr
                             ELSE GuardOk(Num(n(1) \div n(2)))
              [] op = "===" -> GuardOk(Bool(resolved[1].val = resolved[2].val))
              [] OTHER -> GuardErr

----------------------------------------------------------------------------
(* Rule definitions.  A pattern condition is {alias: {type, v}} followed   *)
(* by its guards.                                                          *)

Pattern(alias, type, vPattern, guards) ==
    [kind |-> "pattern", alias |-> alias, type |-> type,
     pattern |-> << <<"type", Lit(Str(type))>>, <<"v", vPattern>> >>,
     guards |-> guards]

(* rule.salience: absent, a number, the number NaN, or a value that is no number *)
NoSalience == [isNumber |-> FALSE, n |-> 0, nan |-> FALSE]
Salience(n) == [isNumber |-> TRUE, n |-> n, nan |-> FALSE]
NaNSalience == [isNumber |-> TRUE, n |-> 0, nan |-> TRUE]
StringSalience(n) == [isNumber |-> FALSE, n |-> n, nan |-> FALSE]

(* rules that differ in salience only *)
SalienceOfRule ==
    [S_absent |-> NoSalience, S_minus |-> Salience(-1), S_five |-> Salience(5),
     S_string |-> StringSalience(7), S_nan |-> NaNSalience]

(* _.lacks(patternObject) and _.from(patternObject).count()/.sum(field).into(variable); *)
(* a pattern object is given by its own properties in order, as <<key, value>> pairs   *)
ObjectPattern(entries) == [tag |-> "obj", entries |-> entries]

Lacks(patternObject) == [kind |-> "lacks", pattern |-> patternObject]

From(patternObject, accumulate, on, into) ==
    [kind |-> "accumulator", from |-> patternObject, accumulate |-> accumulate,
     on |-> on, into |-> into]

(* the pattern object { type: K }, as the README and the JSDoc of lacks and *)
(* from write it: its first key is "type" and the value under it a string   *)
TypeOnly(type) == << <<"type", Lit(Str(type))>> >>

(* the facts of one type with the value that ?v holds *)
SameValue(type) == << <<type, ObjectPattern(<< <<"v", Var("?v")>> >>)>> >>

RuleIds == {"R1", "R2", "R3", "R4", "R5", "R6", "R7", "R8", "R9", "R10", "R11"}

QueryIds == {"Q1"}

RuleDef(id) ==
    CASE id = "R1" ->
            [id |-> "R1", type |-> "rule",
             when |-> << Pattern("a", "A", Var("?v"), <<>>) >>,
             pre |-> <<>>, salience |-> NoSalience,
             around |-> FALSE, after |-> FALSE, throws |-> {}, post |-> <<>>]
      [] id = "R2" ->
            [id |-> "R2", type |-> "rule",
             when |-> << Pattern("b", "B", Var("?v"), <<>>) >>,
             pre |-> << <<"/", Lit(Num(1)), Var("?v")>> >>, salience |-> Salience(10),
             around |-> TRUE, after |-> TRUE, throws |-> {"TypeError"},
             post |-> << Pattern("b", "B", Var("?v"), <<>>) >>]
      [] id = "R3" ->
            [id |-> "R3", type |-> "rule",
             when |-> << Pattern("a", "A", Var("?v"), <<>>),
                         Pattern("b", "B", Var("?v"), <<>>) >>,
             pre |-> << <<">", Var("?v"), Lit(Num(1))>> >>, salience |-> Salience(0),
             around |-> FALSE, after |-> TRUE, throws |-> {}, post |-> <<>>]
      [] id \in DOMAIN SalienceOfRule ->
            [id |-> id, type |-> "rule", when |-> <<>>,
             pre |-> <<>>, salience |-> SalienceOfRule[id],
             around |-> FALSE, after |-> FALSE, throws |-> {}, post |-> <<>>]
      [] id = "R4" ->
            [id |-> "R4", type |-> "rule",
             when |-> << Pattern("b", "B", Var("?v"),
                                 << <<"/", Lit(Num(1)), Var("?v")>> >>) >>,
             pre |-> <<>>, salience |-> NoSalience,
             around |-> FALSE, after |-> FALSE, throws |-> {}, post |-> <<>>]
      [] id = "Q1" ->
            [id |-> "Q1", type |-> "query",
             when |-> << Pattern("b", "B", Var("?v"), <<>>) >>,
             pre |-> <<>>, salience |-> NoSalience,
             around |-> FALSE, after |-> FALSE, throws |-> {}, post |-> <<>>]
      [] id = "R5" ->
            [id |-> "R5", type |-> "rule",
             when |-> << Pattern("a", "A", Var("?v"), <<>>), Lacks(SameValue("B")) >>,
             pre |-> <<>>, salience |-> NoSalience,
             around |-> FALSE, after |-> FALSE, throws |-> {}, post |-> <<>>]
      [] id = "R6" ->
            [id |-> "R6", type |-> "rule",
             when |-> << Pattern("a", "A", Var("?v"), <<>>),
                         From(SameValue("B"), "count", "", "?c") >>,
             pre |-> <<>>, salience |-> NoSalience,
             around |-> FALSE, after |-> FALSE, throws |-> {}, post |-> <<>>]
      [] id = "R7" ->
            [id |-> "R7", type |-> "rule",
             when |-> << Pattern("a", "A", Var("?v"), <<>>), Lacks(TypeOnly("B")) >>,
             pre |-> <<>>, salience |-> NoSalience,
             around |-> FALSE, after |-> FALSE, throws |-> {}, post |-> <<>>]
      [] id = "R8" ->
            [id |-> "R8", type |-> "rule",
             when |-> << Pattern("a", "A", Var("?v"), <<>>),
                         From(TypeOnly("B"), "count", "", "?c") >>,
             pre |-> <<>>, salience |-> NoSalience,
             around |-> FALSE, after |-> FALSE, throws |-> {}, post |-> <<>>]
      [] id = "R9" ->
            [id |-> "R9", type |-> "rule",
             when |-> << Pattern("b", "B", Var("?v"), <<>>),
                         From(SameValue("A"), "median", "v", "?m") >>,
             pre |-> <<>>, salience |-> NoSalience,
             around |-> FALSE, after |-> FALSE, throws |-> {}, post |-> <<>>]
      [] id = "R10" ->
            [id |-> "R10", type |-> "rule",
             when |-> << From(SameValue("A"), "median", "v", "?m"),
                         Pattern("b", "B", Var("?v"), <<>>) >>,
             pre |-> <<>>, salience |-> NoSalience,
             around |-> FALSE, after |-> FALSE, throws |-> {}, post |-> <<>>]
      [] id = "R11" ->
            [id |-> "R11", type |-> "rule",
             when |-> << Pattern("b", "B", Var("?b"), <<>>) >>,
             pre |-> <<>>, salience |-> NoSalience,
             around |-> FALSE, after |-> FALSE, throws |-> {}, post |-> <<>>]

(* the definition tables an application sets up with addDefinition *)
DefinitionLists == { <<"R1", "R2">>, <<"R3", "R1">> }

----------------------------------------------------------------------------
(* #checkRule: the condition join.  The result is the sequence of matches  *)
(* in the order the generator yields them.  Calling an accumulator that is *)
(* not registered throws: the generator yields nothing more from there.    *)
(* The pattern branch runs its guards and the join of the remaining        *)
(* conditions inside try/catch, so such an exception ends the candidate it *)
(* was raised under and the loop goes on; with no pattern condition before *)
(* it the exception leaves the generator (checkRuleThrows).                *)

Match(ruleId, bindings, consumed) ==
    [rule |-> ruleId, bindings |-> bindings, consumedFactIds |-> consumed]

BindAlias(bindings, alias, fact) ==
    LET b1 == IF alias \in DOMAIN bindings /\ Truthy(bindings[alias]) THEN bindings
              ELSE Bind(bindings, alias, FactVal(fact))
        varAlias == "?" \o alias
    IN IF varAlias \in DOMAIN b1 /\ Truthy(b1[varAlias]) THEN b1
       ELSE Bind(b1, varAlias, FactVal(fact))

(* variant: a guard that throws is skipped *)
guardsPassLenient(guards, bindings) ==
    \A i \in 1..Len(guards) :
        \/ executeGuard(guards[i], bindings).err
        \/ Truthy(executeGuard(guards[i], bindings).val)

(* guards.every(...): does the call emit engine:guardError, i.e. does a guard *)
(* throw before one returns a falsy value                                     *)
guardsEmit(guards, bindings) ==
    \E i \in 1..Len(guards) :
        /\ executeGuard(guards[i], bindings).err
        /\ \A j \in 1..(i - 1) :
              /\ ~executeGuard(guards[j], bindings).err
              /\ Truthy(executeGuard(guards[j], bindings).val)

guardsPass(guards, bindings) ==
    \A i \in 1..Len(guards) :
        /\ \A j \in 1..i : ~executeGuard(guards[j], bindings).err
        /\ Truthy(executeGuard(guards[i], bindings).val)

(* matcher.match(pattern, plainFact, bindings) where the pattern is whatever the *)
(* first property of a lacks or from pattern object holds                       *)
matchFact(pattern, plainFact, bindings) ==
    IF pattern.tag = "obj" THEN matchKeys(pattern.entries, plainFact, bindings)
    ELSE matchValue(pattern, FactVal(plainFact), bindings)

(* Object.keys(patternObject)[0] and the value under it *)
FirstKey(patternObject) == patternObject[1][1]
FirstValue(patternObject) == patternObject[1][2]

(* the stored facts of type Object.keys(patternObject)[0] that match, in bucket order *)
sourceFacts(h, patternObject, initialBindings) ==
    SelectSeq(getFactsByType(h, FirstKey(patternObject)),
              LAMBDA id : matchFact(FirstValue(patternObject), h.facts[id].fact,
                                    initialBindings).isMatch)

(* variant: the source pattern is matched without the bindings so far *)
lacksFoundMatchUnbound(h, condition, initialBindings) ==
    sourceFacts(h, condition.pattern, <<>>) /= <<>>

lacksFoundMatch(h, condition, initialBindings) ==
    sourceFacts(h, condition.pattern, initialBindings) /= <<>>

RECURSIVE SumOfField(_, _, _)
SumOfField(h, field, ids) ==
    IF ids = <<>> THEN 0
    ELSE ToNumber(FieldValue(h.facts[Head(ids)].fact, field)) + SumOfField(h, field, Tail(ids))

(* the keys of the accumulators object *)
RegisteredAccumulators == {"sum", "count", "average", "collect"}

(* accumulators[accumulate](onField)(sourceFacts) *)
accumulatorFn(h, accumulate, onField, ids) ==
    CASE accumulate = "count" -> Num(Len(ids))
      [] accumulate = "sum" -> Num(SumOfField(h, onField, ids))

(* variant: the accumulated facts are added to the consumed set *)
accumulatorConsumedWithSources(consumed, ids) == consumed \cup Range(ids)

(* the consumed set an accumulator condition hands on *)
accumulatorConsumed(consumed, ids) == consumed

RECURSIVE checkRule(_, _, _, _, _)
RECURSIVE joinCandidates(_, _, _, _, _, _, _)

checkRule(h, ruleId, whenConditions, initialBindings, consumed) ==
    IF whenConditions = <<>> THEN << Match(ruleId, initialBindings, consumed) >>
    ELSE LET condition == Head(whenConditions)
             remainingConditions == Tail(whenConditions)
         IN CASE condition.kind = "lacks" ->
                    IF lacksFoundMatch(h, condition, initialBindings) THEN <<>>
                    ELSE checkRule(h, ruleId, remainingConditions, initialBindings, consumed)
              [] condition.kind = "accumulator" ->
                    IF condition.accumulate \notin RegisteredAccumulators THEN <<>>
                    ELSE
                    LET ids == sourceFacts(h, condition.from, initialBindings)
                        result == accumulatorFn(h, condition.accumulate, condition.on, ids)
                        nextBindings == Bind(initialBindings, condition.into, result)
                    IN checkRule(h, ruleId, remainingConditions, nextBindings,
                                 accumulatorConsumed(consumed, ids))
              [] OTHER ->
                    joinCandidates(h, ruleId, condition, remainingConditions, initialBindings,
                                   consumed, getFactsByType(h, condition.type))

joinCandidates(h, ruleId, condition, remaining, initialBindings, consumed, candidates) ==
    IF candidates = <<>> THEN <<>>
    ELSE LET plainFact == h.facts[Head(candidates)].fact
             matchResult == match(condition.pattern, plainFact, initialBindings)
             currentBindings == BindAlias(matchResult.bindings, condition.alias, plainFact)
             here == IF matchResult.isMatch /\ guardsPass(condition.guards, currentBindings)
                     THEN checkRule(h, ruleId, remaining, currentBindings,
                                    consumed \cup {plainFact._id})
                     ELSE <<>>
         IN here \o joinCandidates(h, ruleId, condition, remaining, initialBindings,
                                   consumed, Tail(candidates))

(* #findMatches: every rule definition, in table order, joined from scratch *)
RECURSIVE findMatchesFrom(_, _)
findMatchesFrom(h, defs) ==
    IF defs = <<>> THEN <<>>
    ELSE (IF RuleDef(Head(defs)).type = "query" THEN <<>>
          ELSE checkRule(h, Head(defs), RuleDef(Head(defs)).when, <<>>, {}))
         \o findMatchesFrom(h, Tail(defs))

findMatches(h, task) == findMatchesFrom(h, definitions)

(* does the join of one definition emit engine:guardError *)
RECURSIVE checkRuleEmits(_, _, _, _)
checkRuleEmits(h, ruleId, whenConditions, initialBindings) ==
    IF whenConditions = <<>> THEN FALSE
    ELSE IF Head(whenConditions).kind = "lacks"
    THEN /\ ~lacksFoundMatch(h, Head(whenConditions), initialBindings)
         /\ checkRuleEmits(h, ruleId, Tail(whenConditions), initialBindings)
    ELSE IF Head(whenConditions).kind = "accumulator"
    THEN LET condition == Head(whenConditions)
             ids == sourceFacts(h, condition.from, initialBindings)
         IN condition.accumulate \in RegisteredAccumulators /\
            checkRuleEmits(h, ruleId, Tail(whenConditions),
                           Bind(initialBindings, condition.into,
                                accumulatorFn(h, condition.accumulate, condition.on, ids)))
    ELSE LET condition == Head(whenConditions)
             candidates == getFactsByType(h, condition.type)
         IN \E i \in 1..Len(candidates) :
               LET plainFact == h.facts[candidates[i]].fact
                   matchResult == match(condition.pattern, plainFact, initialBindings)
                   currentBindings == BindAlias(matchResult.bindings, condition.alias, plainFact)
               IN /\ matchResult.isMatch
                  /\ \/ guardsEmit(condition.guards, currentBindings)
                     \/ /\ guardsPass(condition.guards, currentBindings)
                        /\ checkRuleEmits(h, ruleId, Tail(whenConditions), currentBindings)

findMatchesEmits(h, task) ==
    \E i \in 1..Len(definitions) :
        /\ RuleDef(definitions[i]).type /= "query"
        /\ checkRuleEmits(h, definitions[i], RuleDef(definitions[i]).when, <<>>)

----------------------------------------------------------------------------
(* SalienceConflictResolver.resolve: <<>> stands for null *)

salienceOf(activation) ==
    LET s == RuleDef(activation.rule).salience
    IN IF s.isNumber THEN s.n ELSE 0

(* typeof NaN is 'number': the activation is grouped under the key "NaN" *)
isNaNSalience(activation) ==
    LET s == RuleDef(activation.rule).salience
    IN s.isNumber /\ s.nan

(* Math.max over the group keys is NaN as soon as one key is NaN *)
resolve(matches) ==
    IF Len(matches) = 0 THEN <<>>
    ELSE IF Len(matches) = 1 THEN << matches[1] >>
    ELSE LET idx == 1..Len(matches)
             anyNaN == \E i \in idx : isNaNSalience(matches[i])
             highestSalience == Max({salienceOf(matches[i]) : i \in idx})
             first == IF anyNaN
                      THEN Min({i \in idx : isNaNSalience(matches[i])})
                      ELSE Min({i \in idx : salienceOf(matches[i]) = highestSalience})
         IN << matches[first] >>

----------------------------------------------------------------------------
(* #truthMaintenance: activations in table order, produced facts in the    *)
(* order they were added; each retraction goes through retractFact.        *)

(* variant: the logical flag is not consulted *)
RetractableByAnyProduced(h, activationId, factId) ==
    /\ hasFact(h, factId)
    /\ activationId \in DOMAIN h.activations
    /\ factId \in h.activations[activationId].produced

RetractableBy(h, activationId, factId) ==
    /\ hasFact(h, factId)
    /\ getFactEntry(h, factId).metadata.logical
    /\ getFactEntry(h, factId).metadata.producedBy = activationId

(* variant: produced facts are dropped from storage directly, no retract task *)
RECURSIVE tmsRetractProducedSilently(_, _, _)
tmsRetractProducedSilently(h, activationId, produced) ==
    IF produced = <<>> THEN h
    ELSE tmsRetractProducedSilently(
            IF RetractableBy(h, activationId, Head(produced))
            THEN [StorageRetract(h, Head(produced)) EXCEPT
                     !.tmsRetracted = @ \cup {Head(produced)}]
            ELSE h,
            activationId, Tail(produced))

RECURSIVE tmsRetractProduced(_, _, _)
tmsRetractProduced(h, activationId, produced) ==
    IF produced = <<>> THEN h
    ELSE tmsRetractProduced(
            IF RetractableBy(h, activationId, Head(produced))
            THEN [retractFact(h, Head(produced)) EXCEPT !.tmsRetracted = @ \cup {Head(produced)}]
            ELSE h,
            activationId, Tail(produced))

RECURSIVE tmsInvalidate(_, _)
tmsInvalidate(h, invalidActivations) ==
    IF invalidActivations = <<>> THEN h
    ELSE LET activationId == Head(invalidActivations)
             h1 == IF activationId \in DOMAIN h.activations
                   THEN LET h0 == tmsRetractProduced(h, activationId,
                                     SortedSeq(h.activations[activationId].produced))
                        IN [h0 EXCEPT !.activations =
                               Restrict(h0.activations, DOMAIN h0.activations \ {activationId})]
                   ELSE h
         IN tmsInvalidate(h1, Tail(invalidActivations))

InvalidActivations(h, retractedFactId) ==
    {id \in DOMAIN h.activations : retractedFactId \in h.activations[id].consumed}

(* variant: invalid activations leave the table, their facts stay *)
truthMaintenanceDroppingOnly(h, retractedFactId) ==
    [h EXCEPT !.activations =
        Restrict(h.activations, DOMAIN h.activations \ InvalidActivations(h, retractedFactId))]

truthMaintenance(h, retractedFactId) ==
    tmsInvalidate(h, SortedSeq(InvalidActivations(h, retractedFactId)))

----------------------------------------------------------------------------
(* The state of one call of run(): the task being processed, the selected  *)
(* activation, and what has happened in its lifecycle so far.              *)

NoCur == [task |-> 0, kind |-> "", rule |-> "", bindings |-> <<>>, consumed |-> {},
          activationId |-> 0, inAround |-> FALSE, matches |-> 0,
          aroundCalls |-> 0, thenCalls |-> 0, handlerCalls |-> 0, postChecks |-> 0,
          afterCalls |-> 0, outcome |-> "", thrown |-> "", events |-> {}]

Emit(c, eventName) == [c EXCEPT !.events = @ \cup {eventName}]

(* events, thrown and outcome describe the latest step of the lifecycle only *)
Enter(c) == [c EXCEPT !.events = {}, !.thrown = "", !.outcome = ""]

LifecyclePcs == {"around", "then", "throws", "around2", "after"}

InLifecycle(d) == pc[d] \in LifecyclePcs

Running == \E d \in Drains : pc[d] = "loop"

Commit(h) ==
    /\ facts' = h.facts
    /\ alphaNetwork' = h.alphaNetwork
    /\ factIdCounter' = h.factIdCounter
    /\ agenda' = h.agenda
    /\ activations' = h.activations
    /\ taskSeq' = h.taskSeq
    /\ justif' = h.justif
    /\ tmsRetracted' = h.tmsRetracted

----------------------------------------------------------------------------
(* The context object handed to a rule's hooks, and the calls a hook makes *)

(* variant: the metadata argument is handed to assertFact and lost there *)
ctxAssertFactUnpatched(h, c, type, v, logical) ==
    LET h1 == assertFact(h, type, v)
        factId == h1.factIdCounter
        h2 == IF logical
              THEN [h1 EXCEPT !.justif = [x \in DOMAIN h1.justif \cup {factId} |->
                                 IF x = factId THEN c.consumed ELSE h1.justif[x]]]
              ELSE h1
    IN IF c.activationId \in DOMAIN h2.activations
       THEN [h2 EXCEPT !.activations[c.activationId].produced = @ \cup {factId}]
       ELSE h2

ctxAssertFact(h, c, type, v, logical) ==
    LET h1 == assertFact(h, type, v)
        factId == h1.factIdCounter
        h2 == IF logical
              THEN [h1 EXCEPT !.facts[factId].metadata =
                                 [logical |-> TRUE, producedBy |-> c.activationId],
                              !.justif = [x \in DOMAIN h1.justif \cup {factId} |->
                                 IF x = factId THEN c.consumed ELSE h1.justif[x]]]
              ELSE h1
    IN IF c.activationId \in DOMAIN h2.activations
       THEN [h2 EXCEPT !.activations[c.activationId].produced = @ \cup {factId}]
       ELSE h2

NoOp == [op |-> "none", type |-> "", v |-> 0, logical |-> FALSE, id |-> 0]

HookOps ==
    {NoOp}
    \cup {[op |-> "assert", type |-> f[1], v |-> f[2], logical |-> l, id |-> 0] :
             f \in HookFacts, l \in BOOLEAN}

OpEnabled(o) == o.op = "assert" => factIdCounter < MaxFacts

ApplyOp(h, c, o) ==
    CASE o.op = "assert" -> ctxAssertFact(h, c, o.type, o.v, o.logical)
      [] OTHER -> h

----------------------------------------------------------------------------
(* run(): the stages of one activation's lifecycle.  Each operator gives   *)
(* the drain's next position and lifecycle record.                         *)

To(p, c) == [pc |-> p, c |-> c]

(* finally { if (rule.after) ... } ; then the activation is yielded *)
EnterFinally(c) ==
    IF RuleDef(c.rule).after THEN To("after", Emit(c, "rule:beforeAfter"))
    ELSE To("yield", Emit(c, "rule:activationYielded"))

(* post-conditions: each one a one-off join under the activation's bindings *)
PostConditions(h, c) ==
    LET post == RuleDef(c.rule).post
        failed == \E i \in 1..Len(post) : checkRule(h, c.rule, <<post[i]>>, c.bindings, {}) = <<>>
        c1 == [c EXCEPT !.postChecks = @ + Len(post)]
    IN IF failed THEN Emit(c1, "rule:postConditionFailed") ELSE c1

(* the rest of proceed() once the action (and its error dispatch) is over *)
FinishProceed(h, c) ==
    LET c1 == PostConditions(h, c)
    IN IF c1.inAround THEN To("around2", c1) ELSE EnterFinally(c1)

(* variant: any error goes to a handler as soon as the rule has a throws table *)
ActionCatchAnyHandler(h, c, e) ==
    LET c1 == Emit([c EXCEPT !.thrown = e], "rule:actionError")
    IN IF RuleDef(c.rule).throws /= {}
       THEN To("throws", c1)
       ELSE FinishProceed(h, Emit(c1, "engine:error:unhandled"))

(* catch (e) around rule.then: dispatch on the error's constructor name *)
ActionCatch(h, c, e) ==
    LET c1 == Emit([c EXCEPT !.thrown = e], "rule:actionError")
    IN IF e \in RuleDef(c.rule).throws
       THEN To("throws", c1)
       ELSE FinishProceed(h, Emit(c1, "engine:error:unhandled"))

(* catch (handlerError) around the throws handler *)
HandlerCatch(h, c) == FinishProceed(h, Emit(c, "engine:error:handler"))

(* variant: a catch without the finally block *)
AroundCatchNoFinally(c) ==
    To("yield", Emit(Emit(c, "engine:error:around"), "rule:activationYielded"))

(* catch (e) around rule.around / proceed *)
AroundCatch(c) == EnterFinally(Emit(c, "engine:error:around"))

(* catch (e) around rule.after *)
AfterCatch(c) ==
    To("yield", Emit(Emit(Emit(c, "engine:error:after"), "rule:afterAfter"),
                     "rule:activationYielded"))

----------------------------------------------------------------------------
(* run(): one iteration of the while loop, up to the first await           *)

(* variant: a guard that throws is skipped instead of failing the check *)
preConditionsPassedLenient(rule, bindings) ==
    \A i \in 1..Len(rule.pre) :
        \/ executeGuard(rule.pre[i], bindings).err
        \/ Truthy(executeGuard(rule.pre[i], bindings).val)

preConditionsPassed(rule, bindings) ==
    \A i \in 1..Len(rule.pre) :
        /\ ~executeGuard(rule.pre[i], bindings).err
        /\ Truthy(executeGuard(rule.pre[i], bindings).val)

StartActivation(c, activation, activationId) ==
    LET rule == RuleDef(activation.rule)
        c1 == [c EXCEPT !.rule = activation.rule, !.bindings = activation.bindings,
                        !.consumed = activation.consumedFactIds,
                        !.activationId = activationId]
    IN IF rule.around THEN To("around", Emit(c1, "rule:beforeAround"))
       ELSE To("then", Emit(c1, "rule:beforeAction"))

TaskStep(d) ==
    /\ pc[d] = "loop"
    /\ IF ~hasTasks(agenda)
       THEN /\ pc' = [pc EXCEPT ![d] = "idle"]
            /\ cur' = [cur EXCEPT ![d] = NoCur]
            /\ UNCHANGED <<facts, alphaNetwork, factIdCounter, agenda, definitions,
                           activations, activationCounter, taskSeq, lastDequeued,
                           lastFired, justif, tmsRetracted, stopped, probe>>
       ELSE LET shifted == AgendaShift(agenda)
                task == shifted.task
                h == [Heap EXCEPT !.agenda = shifted.tasks]
                c == [NoCur EXCEPT !.task = task.seq, !.kind = task.type]
            IN /\ lastDequeued' = task.seq
               /\ UNCHANGED <<definitions, stopped, probe>>
               /\ IF task.type = "retract"
                  THEN /\ Commit(truthMaintenance(h, task.fact._id))
                       /\ pc' = pc
                       /\ cur' = [cur EXCEPT ![d] = c]
                       /\ UNCHANGED <<activationCounter, lastFired>>
                  ELSE LET matches == findMatches(h, task)
                           activation == resolve(matches)
                           c0 == [c EXCEPT !.matches = Len(matches)]
                           c1 == IF findMatchesEmits(h, task)
                                 THEN Emit(c0, "engine:guardError") ELSE c0
                       IN IF activation = <<>>
                          THEN /\ Commit(h)
                               /\ pc' = pc
                               /\ cur' = [cur EXCEPT ![d] = c1]
                               /\ UNCHANGED <<activationCounter, lastFired>>
                          ELSE IF ~preConditionsPassed(RuleDef(activation[1].rule),
                                                       activation[1].bindings)
                          THEN /\ Commit(h)
                               /\ pc' = pc
                               /\ cur' = [cur EXCEPT ![d] =
                                            Emit(IF guardsEmit(RuleDef(activation[1].rule).pre,
                                                               activation[1].bindings)
                                                 THEN Emit([c1 EXCEPT !.rule = activation[1].rule],
                                                           "engine:guardError")
                                                 ELSE [c1 EXCEPT !.rule = activation[1].rule],
                                                 "rule:preConditionsFailed")]
                               /\ UNCHANGED <<activationCounter, lastFired>>
                          ELSE LET activationId == activationCounter + 1
                                   next == StartActivation(c1, activation[1], activationId)
                                   tracked == [ruleId |-> activation[1].rule,
                                               consumed |-> activation[1].consumedFactIds,
                                               produced |-> {}]
                               IN /\ activationCounter' = activationId
                                  /\ Commit([h EXCEPT !.activations =
                                        [a \in DOMAIN h.activations \cup {activationId} |->
                                            IF a = activationId THEN tracked
                                            ELSE h.activations[a]]])
                                  /\ lastFired' = task.seq
                                  /\ pc' = [pc EXCEPT ![d] = next.pc]
                                  /\ cur' = [cur EXCEPT ![d] = next.c]

----------------------------------------------------------------------------
(* run(): the hooks.  A hook is user code: it makes at most one engine     *)
(* call and then returns or throws.                                        *)

Goto(d, next) ==
    /\ pc' = [pc EXCEPT ![d] = next.pc]
    /\ cur' = [cur EXCEPT ![d] = next.c]

HookFrame == UNCHANGED <<definitions, activationCounter, lastDequeued, lastFired, stopped,
                        probe>>

AroundStep(d) ==
    /\ pc[d] = "around" /\ ~Running
    /\ \E o \in HookOps, choice \in {"proceed", "return", "throw"} :
          /\ OpEnabled(o)
          /\ LET c == [Enter(cur[d]) EXCEPT !.aroundCalls = @ + 1, !.outcome = choice]
                 h == ApplyOp(Heap, c, o)
             IN /\ Commit(h)
                /\ Goto(d, CASE choice = "proceed" ->
                                  To("then", Emit([c EXCEPT !.inAround = TRUE], "rule:beforeAction"))
                             [] choice = "return" -> EnterFinally(Emit(c, "rule:afterAround"))
                             [] OTHER -> AroundCatch(c))
    /\ HookFrame

ThenStep(d) ==
    /\ pc[d] = "then" /\ ~Running
    /\ \E o \in HookOps, outcome \in {"ok"} \cup ErrorKinds :
          /\ OpEnabled(o)
          /\ LET c == [Enter(cur[d]) EXCEPT !.thenCalls = @ + 1, !.outcome = outcome]
                 h == ApplyOp(Heap, c, o)
             IN /\ Commit(h)
                /\ Goto(d, IF outcome = "ok"
                           THEN FinishProceed(h, Emit(c, "rule:actionSuccess"))
                           ELSE ActionCatch(h, c, outcome))
    /\ HookFrame

ThrowsStep(d) ==
    /\ pc[d] = "throws" /\ ~Running
    /\ \E o \in HookOps, outcome \in {"ok", "throw"} :
          /\ OpEnabled(o)
          /\ LET c == [Enter(cur[d]) EXCEPT !.handlerCalls = @ + 1, !.outcome = outcome]
                 h == ApplyOp(Heap, c, o)
             IN /\ Commit(h)
                /\ Goto(d, IF outcome = "ok" THEN FinishProceed(h, c) ELSE HandlerCatch(h, c))
    /\ HookFrame

Around2Step(d) ==
    /\ pc[d] = "around2" /\ ~Running
    /\ \E o \in HookOps, outcome \in {"ok", "throw"} :
          /\ OpEnabled(o)
          /\ LET c == [Enter(cur[d]) EXCEPT !.outcome = outcome]
                 h == ApplyOp(Heap, c, o)
             IN /\ Commit(h)
                /\ Goto(d, IF outcome = "ok" THEN EnterFinally(Emit(c, "rule:afterAround"))
                           ELSE AroundCatch(c))
    /\ HookFrame

AfterStep(d) ==
    /\ pc[d] = "after" /\ ~Running
    /\ \E o \in HookOps, outcome \in {"ok", "throw"} :
          /\ OpEnabled(o)
          /\ LET c == [Enter(cur[d]) EXCEPT !.afterCalls = @ + 1, !.outcome = outcome]
                 h == ApplyOp(Heap, c, o)
             IN /\ Commit(h)
                /\ Goto(d, IF outcome = "ok"
                           THEN To("yield", Emit(Emit(c, "rule:afterAfter"), "rule:activationYielded"))
                           ELSE AfterCatch(c))
    /\ HookFrame

----------------------------------------------------------------------------
(* The caller: API calls between the engine's jobs, and the consumer of    *)
(* the run() generator.  A consumer that calls the API between two         *)
(* activations is a consumer that stops, calls, and runs again: the        *)
(* generator holds no state across a yield.  While a hook is suspended the *)
(* calls are retractions; assertions there are the hook's own.             *)

EngineFrame == UNCHANGED <<definitions, activationCounter, pc, cur, lastDequeued,
                           lastFired, stopped, probe>>

CallAssertFact ==
    /\ \A d \in Drains : pc[d] = "idle"
    /\ factIdCounter < MaxFacts
    /\ \E f \in CallFacts : Commit(assertFact(Heap, f[1], f[2]))
    /\ EngineFrame

CallRetractFact ==
    /\ \A d \in Drains : pc[d] = "idle" \/ InLifecycle(d)
    /\ \E id \in DOMAIN facts : Commit(retractFact(Heap, id))
    /\ EngineFrame

DrainFrame == UNCHANGED <<facts, alphaNetwork, factIdCounter, agenda, definitions,
                          activations, activationCounter, taskSeq, lastDequeued,
                          lastFired, justif, tmsRetracted, probe>>

(* run() is called while no other drain is in progress *)
CallRun ==
    /\ \A d \in Drains : pc[d] = "idle"
    /\ pc' = [pc EXCEPT ![1] = "loop"]
    /\ UNCHANGED <<cur, stopped>>
    /\ DrainFrame

(* run() is called while another drain is suspended in a hook *)
CallRunReentrant ==
    /\ ~Running
    /\ \E d \in Drains : InLifecycle(d)
    /\ \E d \in Drains : /\ pc[d] = "idle"
                         /\ pc' = [pc EXCEPT ![d] = "loop"]
    /\ UNCHANGED <<cur, stopped>>
    /\ DrainFrame

(* the consumer asks for the next activation *)
Resume(d) ==
    /\ pc[d] = "yield" /\ ~Running
    /\ pc' = [pc EXCEPT ![d] = "loop"]
    /\ UNCHANGED <<cur, stopped>>
    /\ DrainFrame

(* the consumer stops iterating: the generator is closed at the yield *)
Stop(d) ==
    /\ pc[d] = "yield" /\ ~Running
    /\ pc' = [pc EXCEPT ![d] = "idle"]
    /\ cur' = [cur EXCEPT ![d] = NoCur]
    /\ stopped' = (stopped \/ hasTasks(agenda))
    /\ DrainFrame

----------------------------------------------------------------------------

NoProbe == [op |-> "", in |-> <<>>, out |-> <<>>, done |-> FALSE]

InitEngine(lists) ==
    /\ facts = <<>>
    /\ alphaNetwork = <<>>
    /\ factIdCounter = 0
    /\ agenda = <<>>
    /\ definitions \in lists
    /\ activations = <<>>
    /\ activationCounter = 0
    /\ pc = [d \in Drains |-> "idle"]
    /\ cur = [d \in Drains |-> NoCur]
    /\ taskSeq = 0
    /\ lastDequeued = 0
    /\ lastFired = 0
    /\ justif = <<>>
    /\ tmsRetracted = {}
    /\ stopped = FALSE

InitFrom(lists) == InitEngine(lists) /\ probe = NoProbe

Init == InitFrom(DefinitionLists)

Next ==
    \/ CallAssertFact
    \/ CallRetractFact
    \/ CallRun
    \/ \E d \in Drains : TaskStep(d)
    \/ \E d \in Drains : AroundStep(d)
    \/ \E d \in Drains : ThenStep(d)
    \/ \E d \in Drains : ThrowsStep(d)
    \/ \E d \in Drains : Around2Step(d)
    \/ \E d \in Drains : AfterStep(d)
    \/ \E d \in Drains : Resume(d)
    \/ \E d \in Drains : Stop(d)

Spec == Init /\ [][Next]_vars

(* Overlapping drains: a second run() while the first is suspended in a    *)
(* rule action.  The rules are the ones without an around hook.            *)

InitReentrant == InitFrom({ <<"R3", "R1">> })

NextReentrant ==
    \/ CallAssertFact
    \/ CallRun
    \/ CallRunReentrant
    \/ \E d \in Drains : TaskStep(d)
    \/ \E d \in Drains : ThenStep(d)
    \/ \E d \in Drains : Resume(d)

SpecReentrant == InitReentrant /\ [][NextReentrant]_vars

(* A rule whose pattern condition carries a dividing guard *)

InitGuard == InitFrom({ <<"R4", "R1">> })

NextGuard ==
    \/ CallAssertFact
    \/ CallRun
    \/ \E d \in Drains : TaskStep(d)
    \/ \E d \in Drains : ThenStep(d)
    \/ \E d \in Drains : Resume(d)

SpecGuard == InitGuard /\ [][NextGuard]_vars

(* Rules that join a pattern condition with a lacks or accumulator condition *)

InitJoin == InitFrom({ <<"R5", "R6">>, <<"R6", "R5">> })

NextJoin ==
    \/ CallAssertFact
    \/ CallRetractFact
    \/ CallRun
    \/ \E d \in Drains : TaskStep(d)
    \/ \E d \in Drains : ThenStep(d)
    \/ \E d \in Drains : Resume(d)

SpecJoin == InitJoin /\ [][NextJoin]_vars

(* the same calls, with the rules whose lacks and accumulator conditions   *)
(* are written as { type: K }                                              *)
InitTypeKey == InitFrom({ <<"R7", "R8">>, <<"R8", "R7">> })

SpecTypeKey == InitTypeKey /\ [][NextJoin]_vars

----------------------------------------------------------------------------
(* Direct calls of one component                                           *)

ProbeInit(op, inputs) ==
    /\ InitEngine({ <<>> })
    /\ probe \in {[op |-> op, in |-> x, out |-> <<>>, done |-> FALSE] : x \in inputs}

ProbeStep(op, result) ==
    /\ probe.op = op /\ ~probe.done
    /\ probe' = [probe EXCEPT !.out = result, !.done = TRUE]
    /\ UNCHANGED engineVars

(* resolve(matchIterator) on activations of rules that differ in salience; *)
(* the consumed set tells equal-looking activations apart                   *)
SeqsUpTo(S, n) == UNION {[1..k -> S] : k \in 0..n}

ResolveInputs ==
    {[i \in 1..Len(ids) |-> Match(ids[i], <<>>, {i})] :
        ids \in SeqsUpTo(DOMAIN SalienceOfRule, MaxMatches)}

CallResolve == ProbeStep("resolve", resolve(probe.in))

SpecResolve == ProbeInit("resolve", ResolveInputs) /\ [][CallResolve]_vars

(* FactStorage used on its own: assert and retract, with the identities the *)
(* calls returned logged in probe.out.  A fact is <<type, v>>, the type any  *)
(* JavaScript value.                                                         *)
StoreInputs == { <<Str("A"), 1>>, <<Str("B"), 0>>, <<Str("B"), 1>>,
                 <<Undefined, 1>>, <<Num(1), 1>>, <<Str(""), 1>> }

LogEntry(op, id) == [op |-> op, id |-> id]

StoreFrame == UNCHANGED <<definitions, activationCounter, pc, cur, lastDequeued,
                          lastFired, stopped>>

(* FactStorage.assert: null, and nothing stored, unless fact.type is a string *)
StoreAssert(f) ==
    /\ probe.op = "store"
    /\ IF f[1].k = "str"
       THEN /\ factIdCounter < MaxFacts
            /\ LET h == StorageAssert(Heap, f[1].s, f[2])
                   entry == h.facts[h.factIdCounter]
               IN /\ Commit(h)
                  /\ probe' = [probe EXCEPT
                                 !.out = Append(@, LogEntry("assert", entry.fact._id))]
       ELSE UNCHANGED <<facts, alphaNetwork, factIdCounter, agenda, activations,
                        taskSeq, justif, tmsRetracted, probe>>
    /\ StoreFrame

CallStoreAssert == \E f \in StoreInputs : StoreAssert(f)

(* FactStorage.retract: null when the identity is not stored *)
CallStoreRetract ==
    /\ probe.op = "store"
    /\ \E id \in 1..MaxFacts :
          IF hasFact(Heap, id)
          THEN /\ Commit(StorageRetract(Heap, id))
               /\ probe' = [probe EXCEPT !.out = Append(@, LogEntry("retract", id))]
          ELSE UNCHANGED <<facts, alphaNetwork, factIdCounter, agenda, activations,
                           taskSeq, justif, tmsRetracted, probe>>
    /\ StoreFrame

NextStore == CallStoreAssert \/ CallStoreRetract

SpecStore == ProbeInit("store", { <<>> }) /\ [][NextStore]_vars

----------------------------------------------------------------------------
(* Queries: queryAll, queryOne and queryExists join the conditions of a    *)
(* query definition against the store.  Each gives the heap it leaves and  *)
(* the value it returns; the query here has no select, orderBy, offset or  *)
(* limit.                                                                  *)

QueryReturn(h, result) == [h |-> h, result |-> result]

isQuery(queryId) == queryId \in Range(definitions) /\ RuleDef(queryId).type = "query"

(* the bindings of all matches, in the order #checkRule yields them *)
RECURSIVE bindingsOf(_)
bindingsOf(matches) ==
    IF matches = <<>> THEN <<>> ELSE << Head(matches).bindings >> \o bindingsOf(Tail(matches))

(* delete out.type, and delete every key that holds a fact object *)
withoutFacts(b) == Restrict(b, {x \in DOMAIN b : b[x].k /= "fact"} \ {"type"})

withoutType(b) == Restrict(b, DOMAIN b \ {"type"})

RECURSIVE mapBindings(_, _)
mapBindings(bs, keepFacts) ==
    IF bs = <<>> THEN <<>>
    ELSE << IF keepFacts THEN withoutType(Head(bs)) ELSE withoutFacts(Head(bs)) >>
         \o mapBindings(Tail(bs), keepFacts)

(* variant: the query drains the agenda before it joins *)
queryAllAfterDrain(h, queryId, initialBindings) ==
    LET h0 == [h EXCEPT !.agenda = <<>>]
    IN IF ~isQuery(queryId) THEN QueryReturn(h0, <<>>)
       ELSE QueryReturn(h0, mapBindings(bindingsOf(
                checkRule(h0, queryId, RuleDef(queryId).when, initialBindings, {})), FALSE))

queryAll(h, queryId, initialBindings) ==
    IF ~isQuery(queryId) THEN QueryReturn(h, <<>>)
    ELSE QueryReturn(h, mapBindings(bindingsOf(
             checkRule(h, queryId, RuleDef(queryId).when, initialBindings, {})), FALSE))

(* the first result, or <<>> for null *)
queryOne(h, queryId, initialBindings) ==
    IF ~isQuery(queryId) THEN QueryReturn(h, <<>>)
    ELSE LET finalResults == mapBindings(bindingsOf(
                 checkRule(h, queryId, RuleDef(queryId).when, initialBindings, {})), TRUE)
         IN QueryReturn(h, IF Len(finalResults) > 0 THEN << finalResults[1] >> ELSE <<>>)

queryExists(h, queryId, initialBindings) ==
    IF ~isQuery(queryId) THEN QueryReturn(h, FALSE)
    ELSE QueryReturn(h, checkRule(h, queryId, RuleDef(queryId).when, initialBindings, {}) /= <<>>)

(* a query, the same with ?v given, a rule's id, and an id that is not defined *)
QueryArguments ==
    { <<"Q1", <<>> >>, <<"Q1", [n \in {"?v"} |-> Num(1)]>>, <<"R1", <<>> >>, <<"Q0", <<>> >> }

QueryFrame == UNCHANGED <<definitions, activationCounter, pc, cur, lastDequeued,
                          lastFired, stopped>>

QueryCall(op, queryId, initialBindings) ==
    [op |-> op, queryId |-> queryId, initialBindings |-> initialBindings]

(* a query is called between two steps of a drain, or while none runs *)
CallQuery(call, return) ==
    /\ ~Running
    /\ Commit(return.h)
    /\ probe' = [probe EXCEPT !.out = << call, return.result >>]
    /\ QueryFrame

CallQueryAll ==
    \E a \in QueryArguments :
        CallQuery(QueryCall("queryAll", a[1], a[2]), queryAll(Heap, a[1], a[2]))

CallQueryOne ==
    \E a \in QueryArguments :
        CallQuery(QueryCall("queryOne", a[1], a[2]), queryOne(Heap, a[1], a[2]))

CallQueryExists ==
    \E a \in QueryArguments :
        CallQuery(QueryCall("queryExists", a[1], a[2]), queryExists(Heap, a[1], a[2]))

InitQuery == InitFrom({ <<"R1", "Q1">> })

NextQuery ==
    \/ CallAssertFact
    \/ CallRun
    \/ \E d \in Drains : TaskStep(d)
    \/ \E d \in Drains : ThenStep(d)
    \/ \E d \in Drains : Resume(d)
    \/ CallQueryAll
    \/ CallQueryOne
    \/ CallQueryExists

SpecQuery == InitQuery /\ [][NextQuery]_vars

----------------------------------------------------------------------------
(* The engine's calls with validation: assertFact with every kind of fact  *)
(* data, and modifyFact.  The templates that getTemplate knows are held in *)
(* probe.in; the last call and what it returned and emitted in probe.out.  *)

Null == [k |-> "null"]

(* a field of a template's schema; validate is the name of a custom check *)
FieldSchema(type, required, hasDefault, default, validate) ==
    [type |-> type, required |-> required, hasDefault |-> hasDefault,
     default |-> default, validate |-> validate]

(* what deftemplate has registered: per fact type the schema of field v *)
TemplateRegistries ==
    { <<>>,
      [A |-> FieldSchema("number", TRUE, FALSE, Undefined, "none")],
      [A |-> FieldSchema("number", FALSE, TRUE, Num(1), "positive")],
      [A |-> FieldSchema("string", FALSE, FALSE, Undefined, "none")],
      [A |-> FieldSchema("integer", FALSE, FALSE, Undefined, "none")] }

getTemplate(name) == IF name \in DOMAIN probe.in THEN << probe.in[name] >> ELSE <<>>

(* String.prototype.trim on the type names in use *)
Trim(s) == IF s \in {"", " "} THEN "" ELSE s

(* fact data as a caller writes it: v may be absent (hasV false) *)
FactData(type, hasV, v) == [type |-> type, hasV |-> hasV, v |-> v]

FactDataInputs ==
    {FactData(Str("A"), TRUE, v) : v \in {Num(0), Num(1), Str("x"), Null, Undefined}}
    \cup {FactData(Str("A"), FALSE, Undefined)}
    \cup {FactData(Str("B"), TRUE, v) : v \in {Num(0), Num(1)}}
    \cup {FactData(t, TRUE, Num(1)) : t \in {Str(" "), Str(""), Undefined, Num(1)}}

ActualType(value) ==
    CASE value.k = "num" -> "number"
      [] value.k = "str" -> "string"
      [] value.k = "bool" -> "boolean"
      [] value.k = "null" -> "null"
      [] OTHER -> "undefined"

CustomValidate(validate, value) ==
    IF validate = "positive" THEN value.k = "num" /\ value.n > 0 ELSE TRUE

Valid(factToAssert) == [ok |-> TRUE, event |-> "", fact |-> factToAssert]
Invalid(event, factData) == [ok |-> FALSE, event |-> event, fact |-> factData]

(* the loop over the schema's fields, for the one field v *)
validateField(factData, fieldSchema) ==
    LET withDefault == IF ~factData.hasV /\ fieldSchema.hasDefault
                       THEN FactData(factData.type, TRUE, fieldSchema.default)
                       ELSE factData
        value == IF withDefault.hasV THEN withDefault.v ELSE Undefined
        expectedType == fieldSchema.type
        actualType == ActualType(value)
    IN IF fieldSchema.required /\ value.k \in {"undefined", "null"}
       THEN Invalid("engine:schemaError", factData)
       ELSE IF ~fieldSchema.required /\ ~withDefault.hasV
       THEN Valid(withDefault)
       ELSE IF expectedType \notin {"string", "number", "boolean", "array", "object", "any"}
       THEN Invalid("engine:schemaError", factData)
       ELSE IF expectedType \notin {"any", actualType}
       THEN Invalid("engine:schemaError", factData)
       ELSE IF ~CustomValidate(fieldSchema.validate, value)
       THEN Invalid("engine:schemaError", factData)
       ELSE Valid(withDefault)

validateFact(factData) ==
    LET templateName == factData.type
    IN IF templateName.k /= "str" \/ Trim(templateName.s) = ""
       THEN Invalid("engine:error", factData)
       ELSE LET template == getTemplate(templateName.s)
            IN IF template /= <<>> THEN validateField(factData, template[1])
               ELSE Valid(factData)

(* the facts the store of this model can hold carry a number in v *)
Storable(factData) == factData.hasV /\ factData.v.k = "num"

CallResult(op, arg, ok, event, ret) ==
    [op |-> op, arg |-> arg, ok |-> ok, event |-> event, ret |-> ret]

(* variant: the identity is drawn before the fact data is validated *)
assertFactDataEager(h, factData) ==
    LET checked == validateFact(factData)
    IN IF checked.ok
       THEN assertFact(h, checked.fact.type.s, checked.fact.v.n)
       ELSE [h EXCEPT !.factIdCounter = @ + 1]

assertFactData(h, factData) ==
    LET checked == validateFact(factData)
    IN IF checked.ok
       THEN assertFact(h, checked.fact.type.s, checked.fact.v.n)
       ELSE h

assertFactReturn(h, factData) ==
    LET checked == validateFact(factData)
    IN IF checked.ok THEN h.factIdCounter + 1 ELSE 0

(* the updates object of modifyFact: any of v and type may be named *)
Updates(hasV, v, hasType, type) == [hasV |-> hasV, v |-> v, hasType |-> hasType, type |-> type]

UpdatesInputs ==
    { Updates(FALSE, Undefined, FALSE, Undefined),
      Updates(TRUE, Num(0), TRUE, Str("B")),
      Updates(TRUE, Num(1), FALSE, Undefined),
      Updates(TRUE, Null, FALSE, Undefined),
      Updates(FALSE, Undefined, TRUE, Str("B")),
      Updates(FALSE, Undefined, TRUE, Num(1)) }

(* { ...originalEntry.fact, ...updates } without _id, the type put back *)
newFactData(originalFact, updates) ==
    FactData(Str(originalFact.type), TRUE, IF updates.hasV THEN updates.v ELSE Num(originalFact.v))

(* variant: the merged type is kept *)
modifyFactKeepingMergedType(h, factId, updates) ==
    IF ~hasFact(h, factId) THEN h
    ELSE LET merged == newFactData(getFactEntry(h, factId).fact, updates)
         IN assertFactData(retractFact(h, factId),
                           IF updates.hasType THEN FactData(updates.type, TRUE, merged.v)
                           ELSE merged)

(* variant: the metadata of the original entry is handed to assertFact *)
modifyFactKeepingMetadata(h, factId, updates) ==
    IF ~hasFact(h, factId) THEN h
    ELSE LET h1 == assertFactData(retractFact(h, factId),
                                  newFactData(getFactEntry(h, factId).fact, updates))
         IN IF h1.factIdCounter > h.factIdCounter
            THEN [h1 EXCEPT !.facts[h1.factIdCounter].metadata =
                               getFactEntry(h, factId).metadata]
            ELSE h1

modifyFact(h, factId, updates) ==
    IF ~hasFact(h, factId) THEN h
    ELSE assertFactData(retractFact(h, factId),
                        newFactData(getFactEntry(h, factId).fact, updates))

(* updateFact(factId, updateFn): result is what updateFn returned, an updates *)
(* object or something that is not a plain object                            *)
updateFact(h, factId, result) ==
    IF ~hasFact(h, factId) THEN h
    ELSE IF result = Undefined THEN h
    ELSE modifyFact(h, factId, result)

ApiFrame == UNCHANGED <<definitions, activationCounter, pc, cur, lastDequeued,
                        lastFired, stopped>>

CallAssertFactData ==
    /\ probe.op = "api"
    /\ \A d \in Drains : pc[d] = "idle"
    /\ \E factData \in FactDataInputs :
          LET checked == validateFact(factData)
          IN /\ checked.ok => (factIdCounter < MaxFacts /\ Storable(checked.fact))
             /\ Commit(assertFactData(Heap, factData))
             /\ probe' = [probe EXCEPT !.out =
                    << CallResult("assertFact", factData, checked.ok,
                                  IF checked.ok THEN "fact:asserted" ELSE checked.event,
                                  assertFactReturn(Heap, factData)) >>]
    /\ ApiFrame

CallModifyFact ==
    /\ probe.op = "api"
    /\ \A d \in Drains : pc[d] = "idle"
    /\ \E factId \in 1..MaxFacts, updates \in UpdatesInputs :
          IF ~hasFact(Heap, factId)
          THEN /\ probe' = [probe EXCEPT !.out =
                      << CallResult("modifyFact", <<factId, updates>>, FALSE, "engine:error", 0) >>]
               /\ UNCHANGED <<facts, alphaNetwork, factIdCounter, agenda, activations,
                              taskSeq, justif, tmsRetracted>>
          ELSE LET merged == newFactData(getFactEntry(Heap, factId).fact, updates)
                   checked == validateFact(merged)
               IN /\ checked.ok => (factIdCounter < MaxFacts /\ Storable(checked.fact))
                  /\ Commit(modifyFact(Heap, factId, updates))
                  /\ probe' = [probe EXCEPT !.out =
                         << CallResult("modifyFact", <<factId, updates>>, checked.ok,
                                       IF checked.ok THEN "fact:asserted" ELSE checked.event,
                                       0) >>]
    /\ ApiFrame

InitApi ==
    /\ InitEngine({ <<"R1">> })
    /\ probe \in {[op |-> "api", in |-> r, out |-> <<>>, done |-> FALSE] :
                     r \in TemplateRegistries}

NextApi ==
    \/ CallAssertFactData
    \/ CallModifyFact

SpecApi == InitApi /\ [][NextApi]_vars

----------------------------------------------------------------------------
(* AdvancedMatcher.match on any JavaScript value.  A pattern is a value:   *)
(* a string with a leading '?' is a variable, a string with a leading      *)
(* '...' inside an array is a rest marker, a function is a predicate.      *)

JsArray(items) == [k |-> "arr", items |-> items]
(* an object: its own properties in order, as <<key, value>> pairs *)
JsObject(props) == [k |-> "obj", props |-> props]
JsFunction(name) == [k |-> "fn", name |-> name]
AnySymbol == [k |-> "any"]

(* pattern.startsWith('?') and pattern.startsWith('...') on the strings in use *)
StartsWithSigil(s) == s \in {"?", "?x", "?y", "?a", "?b", "?r"}
StartsWithRest(s) == s \in {"...", "...?r", "...?s", "...r"}

(* restVariableName.substring(3) *)
Substring3(s) ==
    CASE s = "..." -> ""
      [] s = "...?r" -> "?r"
      [] s = "...?s" -> "?s"
      [] s = "...r" -> "r"

(* the predicate functions in use: pattern(fact) *)
ApplyPredicate(name, fact) ==
    CASE name = "isPositive" -> fact.k = "num" /\ fact.n > 0
      [] OTHER -> FALSE

MatchResult(isMatch, bindings) == [isMatch |-> isMatch, bindings |-> bindings]

isRestMarker(p) == p.k = "str" /\ StartsWithRest(p.s)

HasOwnProperty(object, key) ==
    object.k = "obj" /\ \E i \in 1..Len(object.props) : object.props[i][1] = key

GetProperty(object, key) ==
    LET i == CHOOSE i \in 1..Len(object.props) : object.props[i][1] = key
    IN object.props[i][2]

(* variant: the rest runs to the end of the array *)
restSliceToEnd(fact, headLength, tailLength) ==
    SubSeq(fact, headLength + 1, Len(fact))

(* fact.slice(headPattern.length, fact.length - tailPattern.length) *)
restSlice(fact, headLength, tailLength) ==
    SubSeq(fact, headLength + 1, Len(fact) - tailLength)

RECURSIVE AdvancedMatcherMatch(_, _, _)
RECURSIVE matchElements(_, _, _)
RECURSIVE matchProperties(_, _, _)

(* the loops over the elements of an array pattern *)
matchElements(patterns, values, currentBindings) ==
    IF patterns = <<>> THEN MatchResult(TRUE, currentBindings)
    ELSE LET result == AdvancedMatcherMatch(Head(patterns), Head(values), currentBindings)
         IN IF ~result.isMatch THEN MatchResult(FALSE, result.bindings)
            ELSE matchElements(Tail(patterns), Tail(values), result.bindings)

(* the loop over the own properties of an object pattern *)
matchProperties(props, fact, currentBindings) ==
    IF props = <<>> THEN MatchResult(TRUE, currentBindings)
    ELSE LET key == Head(props)[1]
         IN IF ~HasOwnProperty(fact, key) THEN MatchResult(FALSE, currentBindings)
            ELSE LET result == AdvancedMatcherMatch(Head(props)[2], GetProperty(fact, key),
                                                    currentBindings)
                 IN IF ~result.isMatch THEN MatchResult(FALSE, result.bindings)
                    ELSE matchProperties(Tail(props), fact, result.bindings)

AdvancedMatcherMatch(pattern, fact, initialBindings) ==
    LET bindings == initialBindings
    IN CASE pattern.k = "any" -> MatchResult(TRUE, bindings)
         [] pattern.k = "fn" -> MatchResult(ApplyPredicate(pattern.name, fact), bindings)
         [] pattern.k = "str" /\ StartsWithSigil(pattern.s) ->
               LET boundValue == IF pattern.s \in DOMAIN bindings THEN bindings[pattern.s]
                                 ELSE Undefined
               IN IF boundValue /= Undefined
                  THEN AdvancedMatcherMatch(boundValue, fact, bindings)
                  ELSE MatchResult(TRUE, Bind(bindings, pattern.s, fact))
         [] pattern.k = "arr" ->
               IF fact.k /= "arr" THEN MatchResult(FALSE, bindings)
               ELSE LET p == pattern.items
                        f == fact.items
                        rests == {i \in 1..Len(p) : isRestMarker(p[i])}
                    IN IF rests /= {}
                       THEN IF Cardinality(rests) > 1 THEN MatchResult(FALSE, bindings)
                            ELSE LET restOperatorIndex == Min(rests)
                                     headPattern == SubSeq(p, 1, restOperatorIndex - 1)
                                     tailPattern == SubSeq(p, restOperatorIndex + 1, Len(p))
                                     restVariableName == p[restOperatorIndex].s
                                 IN IF Len(f) < Len(headPattern) + Len(tailPattern)
                                    THEN MatchResult(FALSE, bindings)
                                    ELSE LET result ==
                                                 matchElements(
                                                     headPattern \o tailPattern,
                                                     SubSeq(f, 1, Len(headPattern)) \o
                                                     SubSeq(f, Len(f) - Len(tailPattern) + 1, Len(f)),
                                                     bindings)
                                         IN IF ~result.isMatch THEN result
                                            ELSE MatchResult(TRUE,
                                                     Bind(result.bindings,
                                                          Substring3(restVariableName),
                                                          JsArray(restSlice(f, Len(headPattern),
                                                                            Len(tailPattern)))))
                       ELSE IF Len(p) /= Len(f) THEN MatchResult(FALSE, bindings)
                            ELSE matchElements(p, f, bindings)
         [] pattern.k = "obj" ->
               IF fact.k \notin {"obj", "arr"} THEN MatchResult(FALSE, bindings)
               ELSE matchProperties(pattern.props, fact, bindings)
         [] OTHER -> MatchResult(pattern = fact, bindings)

(* match(pattern, fact, initialBindings) called directly: a variable that  *)
(* the bindings already hold, and array patterns against arrays            *)
BoundValues ==
    { Undefined, Null, Num(1), Num(2), Str("a"), Str("?y"),
      JsArray(<< Num(1) >>), JsArray(<< Num(1), Num(2) >>), JsArray(<< Str("?y") >>),
      JsObject(<< <<"a", Num(1)>> >>), JsObject(<< <<"a", Num(1)>>, <<"b", Num(2)>> >>) }

VariableInputs ==
    { << Str("?x"), w, [n \in {"?x"} |-> v] >> : w \in BoundValues, v \in BoundValues }

MaxLen == 3

ArrayPatterns == {JsArray(p) : p \in SeqsUpTo({Num(1), Str("?a"), Str("...?r")}, MaxLen)}

ArrayFacts == {JsArray(f) : f \in SeqsUpTo({Num(1), Num(2)}, MaxLen)} \cup {Num(1)}

ArrayInputs == { << p, f, <<>> >> : p \in ArrayPatterns, f \in ArrayFacts }

MatchInputs == VariableInputs \cup ArrayInputs

CallMatch ==
    ProbeStep("match", AdvancedMatcherMatch(probe.in[1], probe.in[2], probe.in[3]))

SpecMatch == ProbeInit("match", MatchInputs) /\ [][CallMatch]_vars

----------------------------------------------------------------------------
(* Query results: what queryAll and queryOne do with the bindings of the   *)
(* matches #checkRule yields: projection (#project, object form with a     *)
(* variable or a literal per field), ordering, offset and limit.  A query  *)
(* is the definition object: select and orderBy present or not, offset and *)
(* limit any JavaScript value, distinct as QueryBuilder.distinct() sets it. *)

MaxRows == 3

Select(fields) == [present |-> TRUE, fields |-> fields]
NoSelect == [present |-> FALSE, fields |-> <<>>]
OrderBy(key, direction) == [present |-> TRUE, key |-> key, direction |-> direction]
NoOrderBy == [present |-> FALSE, key |-> "", direction |-> "asc"]

Query(select, orderBy, offset, limit, distinct) ==
    [select |-> select, orderBy |-> orderBy, offset |-> offset, limit |-> limit,
     distinct |-> distinct]

ProjectionError(projectionKey) ==
    [event |-> "engine:projectionError", projectionKey |-> projectionKey]

(* #resolvePath over a one-segment path *)
resolvePath(object, key) == IF key \in DOMAIN object THEN object[key] ELSE Undefined

(* #resolveGuardValue(value, bindings, { strictUnbound: true }) *)
resolveStrict(value, bindings) ==
    CASE value.tag = "var" ->
            IF value.name \in DOMAIN bindings THEN GuardOk(bindings[value.name])
            ELSE GuardErr
      [] value.tag = "expr" -> executeGuard(value.expr, bindings)
      [] OTHER -> GuardOk(value.val)

(* variant: a field that fails to resolve is left out of the row *)
projectRowOmitting(projection, bindings) ==
    LET bound == {i \in 1..Len(projection) : ~resolveStrict(projection[i][2], bindings).err}
    IN [key \in {projection[i][1] : i \in bound} |->
           LET i == CHOOSE j \in bound : projection[j][1] = key
           IN resolveStrict(projection[i][2], bindings).val]

(* the row #project builds: result[key] = the resolved template, undefined *)
(* where resolving threw                                                    *)
projectRow(projection, bindings) ==
    [key \in {projection[i][1] : i \in 1..Len(projection)} |->
        LET i == CHOOSE j \in 1..Len(projection) : projection[j][1] = key
            resolved == resolveStrict(projection[i][2], bindings)
        IN IF resolved.err THEN Undefined ELSE resolved.val]

(* the engine:projectionError events #project emits, one per failing field *)
RECURSIVE projectEvents(_, _)
projectEvents(projection, bindings) ==
    IF projection = <<>> THEN <<>>
    ELSE (IF resolveStrict(Head(projection)[2], bindings).err
          THEN << ProjectionError(Head(projection)[1]) >> ELSE <<>>)
         \o projectEvents(Tail(projection), bindings)

RECURSIVE projectAll(_, _)
projectAll(projection, allResults) ==
    IF allResults = <<>> THEN <<>>
    ELSE << projectRow(projection, Head(allResults)) >> \o projectAll(projection, Tail(allResults))

RECURSIVE projectAllEvents(_, _)
projectAllEvents(projection, allResults) ==
    IF allResults = <<>> THEN <<>>
    ELSE projectEvents(projection, Head(allResults))
         \o projectAllEvents(projection, Tail(allResults))

(* valA < valB, for the numbers the rows below hold *)
LessThan(valA, valB) == valA.k = "num" /\ valB.k = "num" /\ valA.n < valB.n

(* the comparator given to Array.prototype.sort *)
orderByCompare(valA, valB, direction) ==
    CASE valA = Undefined /\ valB /= Undefined -> IF direction = "asc" THEN 1 ELSE -1
      [] valA /= Undefined /\ valB = Undefined -> IF direction = "asc" THEN -1 ELSE 1
      [] valA = valB -> 0
      [] LessThan(valA, valB) -> IF direction = "asc" THEN -1 ELSE 1
      [] LessThan(valB, valA) -> IF direction = "asc" THEN 1 ELSE -1
      [] OTHER -> 0

(* Array.prototype.sort is stable: a row goes before the first row that    *)
(* compares greater, behind every row that compares equal                  *)
RECURSIVE insertRow(_, _, _)
insertRow(sorted, row, orderBy) ==
    IF sorted = <<>> THEN << row >>
    ELSE IF orderByCompare(resolvePath(Head(sorted), orderBy.key),
                           resolvePath(row, orderBy.key), orderBy.direction) > 0
         THEN << row >> \o sorted
         ELSE << Head(sorted) >> \o insertRow(Tail(sorted), row, orderBy)

RECURSIVE sortRows(_, _)
sortRows(rows, orderBy) ==
    IF rows = <<>> THEN <<>>
    ELSE insertRow(sortRows(SubSeq(rows, 1, Len(rows) - 1), orderBy), rows[Len(rows)], orderBy)

ordered(query, rows) == IF query.orderBy.present THEN sortRows(rows, query.orderBy) ELSE rows

(* Array.prototype.slice(start) and slice(0, end), start and end >= 0 *)
sliceFrom(rows, start) ==
    IF start >= Len(rows) THEN <<>> ELSE SubSeq(rows, start + 1, Len(rows))
sliceTo(rows, end) ==
    IF end >= Len(rows) THEN rows ELSE SubSeq(rows, 1, end)

(* variant: the limit is taken before the offset *)
offsetAndLimitReversed(query, rows) ==
    LET limited == IF query.limit.k = "num" /\ query.limit.n >= 0
                   THEN sliceTo(rows, query.limit.n) ELSE rows
    IN IF query.offset.k = "num" /\ query.offset.n > 0
       THEN sliceFrom(limited, query.offset.n) ELSE limited

applyOffset(query, rows) ==
    IF query.offset.k = "num" /\ query.offset.n > 0
    THEN sliceFrom(rows, query.offset.n) ELSE rows

offsetAndLimit(query, rows) ==
    LET skipped == applyOffset(query, rows)
    IN IF query.limit.k = "num" /\ query.limit.n >= 0
       THEN sliceTo(skipped, query.limit.n) ELSE skipped

(* queryAll from allResults on: the list it returns *)
queryAllResults(query, allResults) ==
    IF query.select.present
    THEN offsetAndLimit(query, ordered(query, projectAll(query.select.fields, allResults)))
    ELSE mapBindings(offsetAndLimit(query, ordered(query, allResults)), FALSE)

(* queryOne from allMatches on: the row it returns, or null *)
queryOneResult(query, allMatches) ==
    LET finalResults ==
            IF query.select.present
            THEN applyOffset(query, ordered(query, projectAll(query.select.fields, allMatches)))
            ELSE mapBindings(applyOffset(query, ordered(query, allMatches)), TRUE)
    IN IF Len(finalResults) > 0 THEN finalResults[1] ELSE Null

(* the engine:projectionError events of one queryAll *)
queryAllEvents(query, allResults) ==
    IF query.select.present THEN projectAllEvents(query.select.fields, allResults) ELSE <<>>

(* Bindings of a match: ?n tells the rows apart and gives the join order,  *)
(* ?k is a number, undefined, or not bound; b is the matched fact.          *)
KeyValues == {Num(0), Num(1), Undefined}

RowBindings(n) ==
    { [x \in {"?n", "?k", "b"} |->
          CASE x = "?n" -> Num(n) [] x = "?k" -> k [] OTHER -> FactVal(n)] : k \in KeyValues }
    \cup { [x \in {"?n", "b"} |-> IF x = "?n" THEN Num(n) ELSE FactVal(n)] }

AllResultsInputs ==
    UNION { {rows \in [1..len -> UNION {RowBindings(n) : n \in 1..MaxRows}] :
                \A i \in 1..len : rows[i]["?n"] = Num(i)} : len \in 0..MaxRows }

Counts == {Undefined} \cup {Num(n) : n \in 0..MaxRows}

SelectInputs ==
    { Select(<< <<"n", Var("?n")>>, <<"k", Var("?k")>> >>),
      Select(<< <<"k", Var("?k")>>, <<"one", Lit(Num(1))>> >>) }

QueryInputs ==
    { Query(select, orderBy, offset, limit, distinct) :
        select \in SelectInputs,
        orderBy \in {NoOrderBy, OrderBy("k", "asc"), OrderBy("k", "desc")},
        offset \in Counts, limit \in Counts, distinct \in BOOLEAN }
    \cup
    { Query(NoSelect, orderBy, offset, limit, FALSE) :
        orderBy \in {NoOrderBy, OrderBy("?k", "asc"), OrderBy("?k", "desc")},
        offset \in Counts, limit \in Counts }

ShapeInputs == QueryInputs \X AllResultsInputs

ShapeResult(all, one, events) == [all |-> all, one |-> one, events |-> events]

CallQueryResults ==
    ProbeStep("query", ShapeResult(queryAllResults(probe.in[1], probe.in[2]),
                                   queryOneResult(probe.in[1], probe.in[2]),
                                   queryAllEvents(probe.in[1], probe.in[2])))

SpecShape == ProbeInit("query", ShapeInputs) /\ [][CallQueryResults]_vars

----------------------------------------------------------------------------
(* #executeGuard called on its own: a binary guard over variables and      *)
(* literals, under bindings that bind both, one or none of the variables.  *)

GuardOperands == {Var("?x"), Var("?y"), Lit(Num(0)), Lit(Num(1)), Lit(Undefined)}

GuardExpressions == { <<op, a, b>> : op \in {">", "/", "==="}, a \in GuardOperands,
                                     b \in GuardOperands }

GuardBindings ==
    { <<>>, [x \in {"?x"} |-> Num(1)], [x \in {"?x"} |-> Undefined],
      [x \in {"?x", "?y"} |-> IF x = "?x" THEN Num(1) ELSE Num(0)] }

CallExecuteGuard == ProbeStep("guard", executeGuard(probe.in[1], probe.in[2]))

SpecExecuteGuard ==
    ProbeInit("guard", GuardExpressions \X GuardBindings) /\ [][CallExecuteGuard]_vars

----------------------------------------------------------------------------
(* SimpleEventEmitter: the listeners of one event name, in probe.in, and   *)
(* what the last emit called, in probe.out.  A listener is named by what   *)
(* its body does: nothing, throw, off() itself, or off() the listener      *)
(* "plain".                                                                *)

MaxListeners == 3

ListenerFunctions == {"plain", "throws", "offSelf", "offPlain"}
EventNames == {"e", ""}

(* Array.prototype.indexOf, 0 when absent *)
IndexOf(s, x) == IF x \in Range(s) THEN Min({i \in 1..Len(s) : s[i] = x}) ELSE 0

(* off(eventName, listenerToRemove): splice out the first occurrence *)
off(listeners, listenerToRemove) ==
    LET index == IndexOf(listeners, listenerToRemove)
    IN IF index > 0
       THEN SubSeq(listeners, 1, index - 1) \o SubSeq(listeners, index + 1, Len(listeners))
       ELSE listeners

(* the listener array after the body of a listener has run *)
listenerBody(listener, listeners) ==
    CASE listener = "offSelf" -> off(listeners, "offSelf")
      [] listener = "offPlain" -> off(listeners, "plain")
      [] OTHER -> listeners

EmitResult(listeners, calls) == [listeners |-> listeners, calls |-> calls]

(* forEach over the copy: each listener is called inside try/catch, so a   *)
(* throw ends that listener only                                           *)
RECURSIVE forEachListener(_, _, _)
forEachListener(copy, listeners, calls) ==
    IF copy = <<>> THEN EmitResult(listeners, calls)
    ELSE forEachListener(Tail(copy), listenerBody(Head(copy), listeners),
                         Append(calls, Head(copy)))

(* forEach over the array itself: index i is visited while it is in range *)
RECURSIVE forEachLive(_, _, _)
forEachLive(i, listeners, calls) ==
    IF i > Len(listeners) THEN EmitResult(listeners, calls)
    ELSE forEachLive(i + 1, listenerBody(listeners[i], listeners), Append(calls, listeners[i]))

(* variant: emit iterates the listener array without copying it *)
emitWithoutCopy(eventName, listeners) ==
    IF eventName = "" THEN EmitResult(listeners, <<>>)
    ELSE forEachLive(1, listeners, <<>>)

emit(eventName, listeners) ==
    IF eventName = "" THEN EmitResult(listeners, <<>>)
    ELSE IF Len(listeners) > 0 THEN forEachListener(listeners, listeners, <<>>)
    ELSE EmitResult(listeners, <<>>)

EmitLog(eventName, calls) == [event |-> eventName, calls |-> calls]

CallOn ==
    /\ probe.op = "emitter"
    /\ Len(probe.in) < MaxListeners
    /\ \E listener \in ListenerFunctions : probe' = [probe EXCEPT !.in = Append(@, listener)]
    /\ UNCHANGED engineVars

CallOff ==
    /\ probe.op = "emitter"
    /\ \E listener \in ListenerFunctions : probe' = [probe EXCEPT !.in = off(@, listener)]
    /\ UNCHANGED engineVars

CallEmit(eventName) ==
    /\ probe.op = "emitter"
    /\ LET result == emit(eventName, probe.in)
       IN probe' = [probe EXCEPT !.in = result.listeners,
                                 !.out = EmitLog(eventName, result.calls)]
    /\ UNCHANGED engineVars

InitEmitter ==
    /\ InitEngine({ <<>> })
    /\ probe = [op |-> "emitter", in |-> <<>>, out |-> EmitLog("", <<>>), done |-> FALSE]

NextEmitter == CallOn \/ CallOff \/ \E eventName \in EventNames : CallEmit(eventName)

SpecEmitter == InitEmitter /\ [][NextEmitter]_vars

----------------------------------------------------------------------------
(* Accumulators.js: sum(field) and average(field) over a list of facts     *)
(* whose field holds a number, NaN, a boolean, a string, null, or is       *)
(* missing.  A quotient that is no integer is kept as a reduced fraction.  *)

NaN == [k |-> "nan"]

RECURSIVE GCD(_, _)
GCD(a, b) == IF b = 0 THEN a ELSE GCD(b, a % b)

Abs(n) == IF n < 0 THEN -n ELSE n

(* total / count, count > 0 *)
Quotient(total, count) ==
    LET g == GCD(Abs(total), count)
    IN IF count \div g = 1 THEN Num(total \div g)
       ELSE [k |-> "num", n |-> total \div g, d |-> count \div g]

(* fact[field] *)
fieldOf(fact, field) == IF field \in DOMAIN fact THEN fact[field] ELSE Undefined

(* typeof value === 'number' && !isNaN(value) *)
isValidNumber(value) == value.k = "num"

(* accumulators.sum(field)(facts): reduce from 0 *)
RECURSIVE sum(_, _)
sum(field, factList) ==
    IF factList = <<>> THEN 0
    ELSE LET acc == sum(field, SubSeq(factList, 1, Len(factList) - 1))
             value == fieldOf(factList[Len(factList)], field)
         IN IF value.k = "bool" THEN acc + (IF value.b THEN 1 ELSE 0)
            ELSE IF isValidNumber(value) THEN acc + value.n
            ELSE acc

(* the count of accumulators.average after the loop *)
RECURSIVE averageCount(_, _)
averageCount(field, factList) ==
    IF factList = <<>> THEN 0
    ELSE LET count == averageCount(field, SubSeq(factList, 1, Len(factList) - 1))
             value == fieldOf(factList[Len(factList)], field)
         IN IF value.k = "bool" THEN count + 1
            ELSE IF isValidNumber(value) THEN count + 1
            ELSE count

(* variant: the total is divided by the number of facts *)
averageOverAllFacts(field, factList) ==
    IF Len(factList) = 0 THEN Num(0) ELSE Quotient(sum(field, factList), Len(factList))

(* accumulators.average(field)(facts); its total is the fold sum computes *)
average(field, factList) ==
    LET total == sum(field, factList)
        count == averageCount(field, factList)
    IN IF count = 0 THEN Num(0) ELSE Quotient(total, count)

FieldValues == {Num(2), Num(-1), NaN, Bool(TRUE), Bool(FALSE), Str("abc"), Null}

AccumulatedFacts == { [x \in {"amount"} |-> value] : value \in FieldValues } \cup { <<>> }

AccumulatorInputs == SeqsUpTo(AccumulatedFacts, MaxLen)

AccumulatorResult(total, mean) == [sum |-> total, average |-> mean]

CallAccumulators ==
    ProbeStep("accumulate", AccumulatorResult(Num(sum("amount", probe.in)),
                                              average("amount", probe.in)))

SpecAccumulate == ProbeInit("accumulate", AccumulatorInputs) /\ [][CallAccumulators]_vars

----------------------------------------------------------------------------
(* fireAll(): one drain consumed to its end, with rule R1 and an action    *)
(* that asserts one fact of type B, a type no condition names.  The caller *)
(* asserts its facts before the drain.  Such a drain can go on without     *)
(* end, so what only grows in it is folded: a fact the action asserts      *)
(* again is represented by the stored fact of the same type and value (no  *)
(* condition can tell the two apart), and the activation table and the     *)
(* counters, which run() writes but never reads, stay as they are.         *)

ActionFact == <<"B", 1>>

Representatives(h, f) ==
    {id \in DOMAIN h.facts : h.facts[id].fact.type = f[1] /\ h.facts[id].fact.v = f[2]}

(* context.assertFact of the action: store the fact and push its assert task *)
actionAssertFact(h, f) ==
    IF Representatives(h, f) = {} THEN assertFact(h, f[1], f[2])
    ELSE [h EXCEPT !.agenda = AgendaPush(h.agenda,
              [type |-> "assert", fact |-> h.facts[Min(Representatives(h, f))].fact, seq |-> 0])]

FireAllFrame == UNCHANGED <<definitions, activations, activationCounter, lastDequeued,
                            lastFired, stopped, probe>>

(* the caller's assertFact; one identity is left for the action's fact *)
FireAllAssert ==
    /\ factIdCounter < MaxFacts - 1
    /\ CallAssertFact

(* while (hasTasks) { shift; #findMatches(task); resolve; ... await rule.then *)
FireAllTask ==
    /\ pc[1] = "loop"
    /\ IF ~hasTasks(agenda)
       THEN /\ pc' = [pc EXCEPT ![1] = "idle"]
            /\ cur' = [cur EXCEPT ![1] = NoCur]
            /\ UNCHANGED <<facts, alphaNetwork, factIdCounter, agenda, taskSeq, justif,
                           tmsRetracted>>
       ELSE LET shifted == AgendaShift(agenda)
                h == [Heap EXCEPT !.agenda = shifted.tasks]
                activation == resolve(findMatches(h, shifted.task))
            IN /\ Commit(h)
               /\ IF activation = <<>>
                  THEN /\ pc' = pc
                       /\ cur' = [cur EXCEPT ![1] = [NoCur EXCEPT !.kind = shifted.task.type]]
                  ELSE /\ pc' = [pc EXCEPT ![1] = "then"]
                       /\ cur' = [cur EXCEPT ![1] =
                                    [NoCur EXCEPT !.kind = shifted.task.type,
                                                  !.rule = activation[1].rule,
                                                  !.bindings = activation[1].bindings,
                                                  !.consumed = activation[1].consumedFactIds]]
    /\ FireAllFrame

(* rule.then(context, bindings) asserts its fact and returns; the          *)
(* activation is yielded                                                   *)
FireAllThen ==
    /\ pc[1] = "then"
    /\ Commit(actionAssertFact(Heap, ActionFact))
    /\ pc' = [pc EXCEPT ![1] = "yield"]
    /\ cur' = [cur EXCEPT ![1] = [@ EXCEPT !.thenCalls = 1]]
    /\ FireAllFrame

(* for await (const _activation of this.run()) { } *)
FireAllNext ==
    /\ pc[1] = "yield"
    /\ Resume(1)

InitFireAll == InitFrom({ <<"R1">> })

NextFireAll == FireAllAssert \/ CallRun \/ FireAllTask \/ FireAllThen \/ FireAllNext

(* the event loop runs every job that is ready: the drain, once called,    *)
(* takes each of its steps                                                 *)
SpecFireAll ==
    /\ InitFireAll
    /\ [][NextFireAll]_vars
    /\ WF_vars(FireAllTask) /\ WF_vars(FireAllThen) /\ WF_vars(FireAllNext)

----------------------------------------------------------------------------
(* An accumulator condition that names an operator the accumulators object *)
(* does not hold: accumulatorFn is undefined and calling it is a TypeError *)
(* thrown inside the #checkRule generator.  R9 has the condition behind a  *)
(* pattern condition, R10 has it first.                                    *)

(* does the join of one definition throw out of the generator: the lacks  *)
(* and accumulator branches have no try block; the pattern branch catches *)
(* what its guards and the join of the remaining conditions throw         *)
RECURSIVE checkRuleThrows(_, _, _, _)
checkRuleThrows(h, ruleId, whenConditions, initialBindings) ==
    IF whenConditions = <<>> THEN FALSE
    ELSE IF Head(whenConditions).kind = "lacks"
    THEN /\ ~lacksFoundMatch(h, Head(whenConditions), initialBindings)
         /\ checkRuleThrows(h, ruleId, Tail(whenConditions), initialBindings)
    ELSE IF Head(whenConditions).kind = "accumulator"
    THEN LET condition == Head(whenConditions)
             ids == sourceFacts(h, condition.from, initialBindings)
         IN \/ condition.accumulate \notin RegisteredAccumulators
            \/ checkRuleThrows(h, ruleId, Tail(whenConditions),
                               Bind(initialBindings, condition.into,
                                    accumulatorFn(h, condition.accumulate, condition.on, ids)))
    ELSE FALSE

(* [...matchIterator] in resolve drains #findMatches: an exception of any *)
(* rule's join ends the spread, whatever the rules before it yielded      *)
findMatchesThrows(h, task) ==
    \E i \in 1..Len(definitions) :
        /\ RuleDef(definitions[i]).type /= "query"
        /\ checkRuleThrows(h, definitions[i], RuleDef(definitions[i]).when, <<>>)

(* the next loop iteration of run() takes an assert task whose matching throws *)
MatchingThrows ==
    /\ hasTasks(agenda)
    /\ Head(agenda).type = "assert"
    /\ findMatchesThrows([Heap EXCEPT !.agenda = AgendaShift(agenda).tasks], Head(agenda))

(* run() has no try around #findMatches and resolve: the exception leaves  *)
(* the generator, which is then finished; the task is already shifted.     *)
(* The rejected next() is recorded in the call log.                        *)
TaskThrows(d) ==
    /\ pc[d] = "loop"
    /\ MatchingThrows
    /\ LET shifted == AgendaShift(agenda)
       IN /\ Commit([Heap EXCEPT !.agenda = shifted.tasks])
          /\ lastDequeued' = shifted.task.seq
          /\ probe' = [probe EXCEPT !.out =
                          Append(@, [op |-> "run", thrown |-> "TypeError",
                                     task |-> shifted.task.seq])]
    /\ pc' = [pc EXCEPT ![d] = "idle"]
    /\ cur' = [cur EXCEPT ![d] = NoCur]
    /\ UNCHANGED <<definitions, activationCounter, lastFired, stopped>>

(* a loop iteration whose matching does not throw *)
TaskReturns(d) == ~MatchingThrows /\ TaskStep(d)

InitMatchError == InitFrom({ <<"R9", "R1">>, <<"R10", "R1">>, <<"R1", "R10">> })

NextMatchError ==
    \/ CallAssertFact
    \/ CallRun
    \/ \E d \in Drains : TaskThrows(d)
    \/ \E d \in Drains : TaskReturns(d)
    \/ \E d \in Drains : ThenStep(d)
    \/ \E d \in Drains : Resume(d)

SpecMatchError == InitMatchError /\ [][NextMatchError]_vars

----------------------------------------------------------------------------
(* modifyFact and updateFact called by the application between drains and  *)
(* by a rule action through its context (context.modifyFact and            *)
(* context.updateFact hand the call to the engine's methods).  The call    *)
(* log holds, per call that re-asserted a fact, who called and the old and *)
(* new identity.                                                           *)

ModifyCalls ==
    { <<"modifyFact", Updates(TRUE, Num(0), FALSE, Undefined)>>,
      <<"modifyFact", Updates(FALSE, Undefined, TRUE, Str("B"))>>,
      <<"updateFact", Updates(TRUE, Num(0), FALSE, Undefined)>>,
      <<"updateFact", Undefined>> }

ApplyModify(h, call, factId) ==
    IF call[1] = "updateFact" THEN updateFact(h, factId, call[2])
    ELSE modifyFact(h, factId, call[2])

Reasserted(h, h1, via, factId, log) ==
    IF h1.factIdCounter > h.factIdCounter
    THEN Append(log, [via |-> via, old |-> factId, new |-> h1.factIdCounter])
    ELSE log

CallerModifies ==
    /\ \A d \in Drains : pc[d] = "idle"
    /\ factIdCounter < MaxFacts
    /\ \E factId \in DOMAIN facts, call \in ModifyCalls :
          LET h == ApplyModify(Heap, call, factId)
          IN /\ Commit(h)
             /\ probe' = [probe EXCEPT !.out = Reasserted(Heap, h, "caller", factId, @)]
    /\ UNCHANGED <<definitions, activationCounter, pc, cur, lastDequeued, lastFired, stopped>>

(* a rule action that modifies a stored fact through its context and returns *)
ThenModifies(d) ==
    /\ pc[d] = "then" /\ ~Running
    /\ factIdCounter < MaxFacts
    /\ \E factId \in DOMAIN facts, call \in ModifyCalls :
          LET c == [Enter(cur[d]) EXCEPT !.thenCalls = @ + 1, !.outcome = "ok"]
              h == ApplyModify(Heap, call, factId)
          IN /\ Commit(h)
             /\ probe' = [probe EXCEPT !.out = Reasserted(Heap, h, "context", factId, @)]
             /\ Goto(d, FinishProceed(h, Emit(c, "rule:actionSuccess")))
    /\ UNCHANGED <<definitions, activationCounter, lastDequeued, lastFired, stopped>>

InitModify == InitFrom({ <<"R1">> })

NextModify ==
    \/ CallAssertFact
    \/ CallRetractFact
    \/ CallerModifies
    \/ CallRun
    \/ TaskStep(1)
    \/ ThenStep(1)
    \/ ThenModifies(1)
    \/ Resume(1)

SpecModify == InitModify /\ [][NextModify]_vars

----------------------------------------------------------------------------
(* match(pattern, fact, initialBindings) on array patterns whose rest      *)
(* variable may already be bound: by the incoming bindings, or by an       *)
(* element of the same pattern that names the variable                     *)

RestPatterns == {JsArray(p) : p \in SeqsUpTo({Num(1), Str("?r"), Str("...?r")}, MaxLen)}

RestFacts == {JsArray(f) : f \in SeqsUpTo({Num(1), Num(2)}, MaxLen)}

RestBindings ==
    { <<>>, [n \in {"?r"} |-> JsArray(<<>>)], [n \in {"?r"} |-> JsArray(<< Num(2) >>)],
      [n \in {"?r"} |-> Num(1)] }

RestInputs == { << p, f, b >> : p \in RestPatterns, f \in RestFacts, b \in RestBindings }

SpecRest == ProbeInit("match", RestInputs) /\ [][CallMatch]_vars

----------------------------------------------------------------------------
(* FactStorage with clear: the calls of SpecStore and clear(), which       *)
(* empties both maps and resets the identity counter.  The log restarts    *)
(* with the store: after a clear it holds the clear and the calls since.   *)

StorageClear(h) == [h EXCEPT !.factIdCounter = 0, !.facts = <<>>, !.alphaNetwork = <<>>]

CallStoreClear ==
    /\ probe.op = "store"
    /\ Commit(StorageClear(Heap))
    /\ probe' = [probe EXCEPT !.out = << LogEntry("clear", 0) >>]
    /\ StoreFrame

NextStoreClear == CallStoreAssert \/ CallStoreRetract \/ CallStoreClear

SpecStoreClear == ProbeInit("store", { <<>> }) /\ [][NextStoreClear]_vars

----------------------------------------------------------------------------
(* A rule whose pattern { b: { type: 'B', v: '?b' } } names a variable    *)
(* that is spelled like the alias with a leading '?'                       *)

InitAlias == InitFrom({ <<"R11", "R1">>, <<"R1", "R11">> })

SpecAlias == InitAlias /\ [][NextGuard]_vars

----------------------------------------------------------------------------
(* Properties of truth maintenance and the agenda                          *)

Drained == agenda = <<>> /\ \A d \in Drains : ~InLifecycle(d)

Stored(id) == id \in DOMAIN facts

InSomeBucket(id) == \E t \in DOMAIN alphaNetwork : id \in Range(alphaNetwork[t])

(* the step in which drain d takes a retract task from the agenda *)
RetractTaskStep(d) ==
    /\ pc[d] = "loop"
    /\ lastDequeued' /= lastDequeued
    /\ agenda /= <<>>
    /\ Head(agenda).type = "retract"

\* C1: once the agenda is drained, a fact that a rule asserted logically while
\* consuming a fact that has since been retracted is gone from working memory:
\* it is not resolvable by id and it is in no type bucket.
C1_LogicalFactFollowsSupport ==
    Drained =>
        \A b \in DOMAIN justif :
            (\E a \in justif[b] : ~Stored(a)) => ~Stored(b) /\ ~InSomeBucket(b)

(* a drain has ended with a logical fact retracted by truth maintenance after its support *)
C1_Witness ==
    /\ Drained
    /\ \A d \in Drains : pc[d] = "idle"
    /\ \E b \in tmsRetracted :
          /\ b \in DOMAIN justif
          /\ justif[b] /= {}
          /\ \A a \in justif[b] : ~Stored(a)
          /\ ~Stored(b)

\* C2: when the retract task of a fact f is processed, the facts removed from
\* storage are exactly the stored facts g that a tracked activation consuming f
\* produced and that are marked logical with producedBy that activation; every
\* tracked activation consuming f leaves the table; every other fact and
\* activation is unchanged, so a fact asserted without logical stays.
C2_TmsRetractsExactlyTheDependents ==
    [][\A d \in Drains :
        RetractTaskStep(d) =>
            LET f == Head(agenda).fact._id
                invalid == {a \in DOMAIN activations : f \in activations[a].consumed}
                dependents == {g \in DOMAIN facts :
                                 \E a \in invalid :
                                    /\ g \in activations[a].produced
                                    /\ facts[g].metadata.logical
                                    /\ facts[g].metadata.producedBy = a}
            IN /\ DOMAIN facts' = DOMAIN facts \ dependents
               /\ \A g \in DOMAIN facts' : facts'[g] = facts[g]
               /\ DOMAIN activations' = DOMAIN activations \ invalid
               /\ \A a \in DOMAIN activations' : activations'[a] = activations[a]
      ]_vars

(* truth maintenance has retracted a logical fact and left a fact that the same *)
(* kind of hook asserted without the logical option                             *)
C2_Witness ==
    /\ tmsRetracted /= {}
    /\ \E g \in DOMAIN facts :
          /\ ~facts[g].metadata.logical
          /\ facts[g].fact.type = "B"
          /\ \E b \in tmsRetracted : justif[b] /= {} /\ g > Max(justif[b])

(* the retract tasks the step has appended, by fact id *)
NewRetractTasks ==
    {agenda'[i].fact._id : i \in {j \in 1..Len(agenda') :
                                     agenda'[j].seq > taskSeq /\ agenda'[j].type = "retract"}}

\* C3: truth maintenance cascades through the agenda.  Processing the retract
\* task of f removes only facts produced by an activation that consumed f, and
\* each removal appends its own retract task; a fact supported by one of those
\* removed facts stays until that task is processed, and is gone once the
\* agenda is drained.
C3_CascadeThroughAgenda ==
    /\ [][\A d \in Drains :
            RetractTaskStep(d) =>
                LET f == Head(agenda).fact._id
                    removed == DOMAIN facts \ DOMAIN facts'
                IN /\ \A g \in removed : g \in DOMAIN justif /\ f \in justif[g]
                   /\ NewRetractTasks = removed
                   /\ taskSeq' = taskSeq + Cardinality(removed)
         ]_vars
    /\ [](Drained =>
            \A c \in DOMAIN justif \cap DOMAIN facts :
                \A b \in justif[c] \cap DOMAIN justif : \A a \in justif[b] : Stored(a))

(* a two-level cascade has run to the end: C fell with B, which fell with A *)
C3_Witness ==
    /\ Drained
    /\ \E c \in tmsRetracted, b \in tmsRetracted :
          /\ b \in justif[c]
          /\ justif[b] /= {}
          /\ ~Stored(c)

\* C4: a dequeued task fires at most one activation.  An activation id is
\* allocated only in the step that dequeues a task, one per step, and the
\* action of a lifecycle is started at most once, however many matches the
\* task satisfied.
C4_OneActivationPerTask ==
    /\ [][/\ activationCounter' \in {activationCounter, activationCounter + 1}
          /\ activationCounter' /= activationCounter =>
                /\ lastDequeued' > lastDequeued
                /\ lastDequeued' > lastFired
                /\ lastFired' = lastDequeued'
         ]_vars
    /\ [](\A d \in Drains : cur[d].thenCalls <= 1 /\ cur[d].aroundCalls <= 1)

(* a task satisfied several matches and the action of one of them has run *)
C4_Witness ==
    \E d \in Drains :
        /\ cur[d].matches >= 2
        /\ cur[d].thenCalls = 1
        /\ cur[d].task = lastFired

(* the agenda holds, in order, exactly the tasks pushed and not yet dequeued *)
AgendaInPushOrder ==
    /\ Len(agenda) = taskSeq - lastDequeued
    /\ \A i \in 1..Len(agenda) : agenda[i].seq = lastDequeued + i

\* C5: tasks are dequeued in the order they were pushed, and while a lifecycle
\* is in progress no further task is dequeued: the tasks of facts asserted or
\* retracted by its hooks wait behind every task that was already pending.
C5_FifoAndRunToCompletion ==
    /\ AgendaInPushOrder
    /\ \A d \in Drains : InLifecycle(d) => lastDequeued = cur[d].task

(* in the after hook, with a task pending from before and behind it the task  *)
(* of a fact this activation's own hook asserted                              *)
C5_Witness ==
    \E d \in Drains :
        /\ pc[d] = "after"
        /\ Len(agenda) >= 2
        /\ LET last == agenda[Len(agenda)]
           IN /\ last.type = "assert"
              /\ Stored(last.fact._id)
              /\ facts[last.fact._id].metadata.logical
              /\ facts[last.fact._id].metadata.producedBy = cur[d].activationId
        /\ agenda[1].fact._id < agenda[Len(agenda)].fact._id

----------------------------------------------------------------------------
(* Properties of the drain loop and the activation lifecycle               *)

\* C6: under any interleaving of engine calls, a second drain started while a
\* hook is suspended included, the lifecycles of two tasks never overlap: at
\* most one drain is inside a lifecycle, and no task is dequeued between the
\* dequeue of a task and the end of its lifecycle.
C6_LifecyclesNeverOverlap ==
    /\ \A d1 \in Drains, d2 \in Drains : InLifecycle(d1) /\ InLifecycle(d2) => d1 = d2
    /\ \A d \in Drains : InLifecycle(d) => lastDequeued = cur[d].task

\* C7: stopping a drain at a yield and starting a new one loses and repeats no
\* work.  Stopping changes neither the agenda nor working memory; every
\* dequeue takes the oldest task not yet dequeued and leaves the rest queued;
\* and a drain ends by itself only when every task pushed has been dequeued.
C7_StopAndRestartLosesNothing ==
    /\ [][\A d \in Drains :
            (pc[d] = "yield" /\ pc'[d] = "idle") =>
                /\ agenda' = agenda
                /\ taskSeq' = taskSeq
                /\ lastDequeued' = lastDequeued
                /\ facts' = facts
         ]_vars
    /\ [][lastDequeued' /= lastDequeued =>
            /\ agenda /= <<>>
            /\ lastDequeued' = lastDequeued + 1
            /\ Head(agenda).seq = lastDequeued'
            /\ Len(agenda') >= Len(agenda) - 1
            /\ SubSeq(agenda', 1, Len(agenda) - 1) = Tail(agenda)
         ]_vars
    /\ [][\A d \in Drains :
            (pc[d] = "loop" /\ pc'[d] = "idle") => agenda = <<>> /\ lastDequeued = taskSeq
         ]_vars

(* a drain was stopped with tasks pending and a later drain has processed them all *)
C7_Witness ==
    /\ stopped
    /\ \A d \in Drains : pc[d] = "idle"
    /\ agenda = <<>>
    /\ lastDequeued = taskSeq
    /\ taskSeq >= 2

\* C8: for an activation that passed its pre-conditions and whose rule has an
\* after hook, the hook is invoked exactly once, after the around/action stage
\* has finished, whatever that stage did; an error thrown by the after hook
\* is reported as engine:error and the activation is still yielded.
C8_AfterHookExactlyOnce ==
    \A d \in Drains :
        /\ pc[d] \in {"idle", "loop", "yield"} \cup LifecyclePcs
        /\ InLifecycle(d) => cur[d].afterCalls = 0
        /\ pc[d] = "yield" =>
              cur[d].afterCalls = (IF RuleDef(cur[d].rule).after THEN 1 ELSE 0)
        /\ (pc[d] = "yield" /\ cur[d].afterCalls = 1 /\ cur[d].outcome = "throw") =>
              "engine:error:after" \in cur[d].events

(* the action never ran, the after hook ran once and threw, the activation is yielded *)
C8_Witness ==
    \E d \in Drains :
        /\ pc[d] = "yield"
        /\ cur[d].aroundCalls = 1
        /\ cur[d].thenCalls = 0
        /\ cur[d].afterCalls = 1
        /\ "engine:error:after" \in cur[d].events

\* C9: an error thrown by a rule's action goes to the handler registered in
\* rule.throws under the error's constructor name, with the error, when there
\* is one, and is reported as engine:error otherwise; either way the drain
\* does not reject: the lifecycle goes on to its yield, from where the
\* remaining tasks are processed.
C9_ActionErrorDispatch ==
    /\ [](\A d \in Drains :
            /\ pc[d] = "throws" =>
                  /\ "rule:actionError" \in cur[d].events
                  /\ cur[d].thrown \in RuleDef(cur[d].rule).throws
                  /\ "engine:error:unhandled" \notin cur[d].events
            /\ ("rule:actionError" \in cur[d].events /\ pc[d] /= "throws") =>
                  /\ cur[d].thrown \notin RuleDef(cur[d].rule).throws
                  /\ "engine:error:unhandled" \in cur[d].events
                  /\ cur[d].handlerCalls = 0)
    /\ [][\A d \in Drains :
            /\ InLifecycle(d) => pc'[d] \in LifecyclePcs \cup {"yield"}
            /\ (pc[d] = "then" /\ pc'[d] /= "then" /\ cur'[d].outcome /= "ok") =>
                  "rule:actionError" \in cur'[d].events
         ]_vars

(* a throws handler was invoked for an action error, the lifecycle has reached *)
(* its yield and tasks are still pending                                      *)
C9_Witness ==
    \E d \in Drains :
        /\ pc[d] = "yield"
        /\ cur[d].thenCalls = 1
        /\ cur[d].handlerCalls = 1
        /\ agenda /= <<>>

(* the step in which drain d dequeues an assert task whose selected activation *)
(* has a pre guard that throws or evaluates to a falsy value                   *)
PreConditionFailingStep(d) ==
    /\ pc[d] = "loop"
    /\ lastDequeued' /= lastDequeued
    /\ agenda /= <<>>
    /\ Head(agenda).type = "assert"
    /\ LET h == [Heap EXCEPT !.agenda = Tail(agenda)]
           activation == resolve(findMatches(h, Head(agenda)))
       IN /\ activation /= <<>>
          /\ \E i \in 1..Len(RuleDef(activation[1].rule).pre) :
                LET r == executeGuard(RuleDef(activation[1].rule).pre[i],
                                      activation[1].bindings)
                IN r.err \/ ~Truthy(r.val)

\* C10: when a pre guard of the selected activation evaluates to false or
\* throws, the activation is skipped: no hook of the rule is invoked, no
\* activation id is allocated, nothing is tracked for truth maintenance,
\* nothing is yielded, and the loop goes on to the next task.
C10_FailedPreConditionSkips ==
    [][\A d \in Drains :
        PreConditionFailingStep(d) =>
            /\ pc'[d] = "loop"
            /\ activationCounter' = activationCounter
            /\ activations' = activations
            /\ lastFired' = lastFired
            /\ cur'[d].activationId = 0
            /\ cur'[d].aroundCalls = 0 /\ cur'[d].thenCalls = 0
            /\ cur'[d].postChecks = 0 /\ cur'[d].afterCalls = 0
            /\ "rule:activationYielded" \notin cur'[d].events
            /\ facts' = facts
            /\ agenda' = Tail(agenda)
      ]_vars

(* a pre guard threw (division by zero), the activation was skipped, tasks are pending *)
C10_Witness ==
    \E d \in Drains :
        /\ pc[d] = "loop"
        /\ "rule:preConditionsFailed" \in cur[d].events
        /\ cur[d].rule = "R2"
        /\ activationCounter = 0
        /\ agenda /= <<>>

----------------------------------------------------------------------------
(* Properties of guards, the resolver, identities and the matcher          *)

(* the stored B facts whose v makes the pattern guard of R4 divide by zero *)
ZeroDivisors == {id \in DOMAIN facts : facts[id].fact.type = "B" /\ facts[id].fact.v = 0}

\* C11: when the guard of a pattern condition divides by zero for a candidate
\* fact, the step emits engine:guardError, that candidate yields no match and
\* is not consumed by the activation that fires, every other candidate and
\* every other rule still yields its match, and the drain goes on.
C11_GuardDivisionByZeroIsContained ==
    [][\A d \in Drains :
        (/\ pc[d] = "loop"
         /\ lastDequeued' /= lastDequeued
         /\ agenda /= <<>>
         /\ Head(agenda).type = "assert"
         /\ definitions = <<"R4", "R1">>
         /\ ZeroDivisors /= {}) =>
            /\ "engine:guardError" \in cur'[d].events
            /\ cur'[d].matches = Cardinality(DOMAIN facts \ ZeroDivisors)
            /\ activationCounter' /= activationCounter =>
                  cur'[d].consumed \cap ZeroDivisors = {}
            /\ pc'[d] \in {"loop", "then"}
      ]_vars

(* a guard divided by zero for one B fact while R4 fired for another and R1 matched too *)
C11_Witness ==
    \E d \in Drains :
        /\ pc[d] = "then"
        /\ "engine:guardError" \in cur[d].events
        /\ cur[d].rule = "R4"
        /\ cur[d].matches >= 2
        /\ ZeroDivisors /= {}

(* salience as the resolver is meant to read it: a number, or 0 when absent or not a number *)
StatedSalience(activation) ==
    LET s == RuleDef(activation.rule).salience
    IN IF s.isNumber /\ ~s.nan THEN s.n ELSE 0

\* C12: resolve returns null for an empty input and otherwise the first
\* element, in input order, among those whose salience is numerically highest,
\* a missing or non-number salience counting as 0; the result is one of the
\* input activations.
C12_ResolveFirstOfHighest ==
    (probe.op = "resolve" /\ probe.done) =>
        IF probe.in = <<>> THEN probe.out = <<>>
        ELSE LET idx == 1..Len(probe.in)
                 highest == Max({StatedSalience(probe.in[i]) : i \in idx})
                 first == Min({i \in idx : StatedSalience(probe.in[i]) = highest})
             IN probe.out = << probe.in[first] >>

\* C13: over any sequence of assert and retract calls on one fact store, each
\* asserted fact gets a positive integer identity greater than every identity
\* assigned before it, so no identity is assigned twice, also not after the
\* fact that held it was retracted.
C13_IdentitiesIncrease ==
    probe.op = "store" =>
        \A j \in 1..Len(probe.out) :
            probe.out[j].op = "assert" =>
                /\ probe.out[j].id \in Nat \ {0}
                /\ \A i \in 1..(j - 1) :
                      probe.out[i].op = "assert" => probe.out[i].id < probe.out[j].id

(* a fact was retracted and a later assert returned a greater identity *)
C13_Witness ==
    /\ probe.op = "store"
    /\ \E i \in 1..Len(probe.out), j \in 1..Len(probe.out) :
          /\ i < j
          /\ probe.out[i].op = "retract"
          /\ probe.out[j].op = "assert"
          /\ probe.out[j].id > probe.out[i].id
          /\ probe.out[j].id \in DOMAIN facts

----------------------------------------------------------------------------
(* Properties of the engine's calls                                        *)

(* the step is a call of modifyFact on a stored fact *)
ModifyStoredStep ==
    /\ probe' /= probe
    /\ probe'.out /= <<>>
    /\ probe'.out[1].op = "modifyFact"
    /\ probe'.out[1].arg[1] \in DOMAIN facts

(* what modifyFact(id, updates) is said to do to the store and the agenda *)
ModifyEffect ==
    LET factId == probe'.out[1].arg[1]
        updates == probe'.out[1].arg[2]
        old == facts[factId].fact
        mergedV == IF updates.hasV THEN updates.v ELSE Num(old.v)
        newId == factIdCounter + 1
        n == Len(agenda)
    IN /\ factId \notin DOMAIN facts'
       /\ newId \in DOMAIN facts'
       /\ \A id \in DOMAIN facts \cup (1..factIdCounter) : id < newId
       /\ facts'[newId].fact.type = old.type
       /\ Num(facts'[newId].fact.v) = mergedV
       /\ facts'[newId].fact._id = newId
       /\ DOMAIN facts' = (DOMAIN facts \ {factId}) \cup {newId}
       /\ Len(agenda') = n + 2
       /\ SubSeq(agenda', 1, n) = agenda
       /\ agenda'[n + 1].type = "retract" /\ agenda'[n + 1].fact = old
       /\ agenda'[n + 2].type = "assert" /\ agenda'[n + 2].fact = facts'[newId].fact

TypeRejected(factData) ==
    factData.type.k /= "str" \/ factData.type.s \in {"", " "}

(* the fact data violates the schema registered for its type: a required  *)
(* field is missing or null, or a field that is present after defaulting  *)
(* has another type than declared or fails the custom check                *)
ViolatesSchema(factData) ==
    /\ factData.type.k = "str"
    /\ factData.type.s \in DOMAIN probe.in
    /\ LET fieldSchema == probe.in[factData.type.s]
           present == factData.hasV \/ fieldSchema.hasDefault
           value == IF factData.hasV THEN factData.v
                    ELSE IF fieldSchema.hasDefault THEN fieldSchema.default ELSE Undefined
       IN \/ fieldSchema.required /\ (~present \/ value \in {Undefined, Null})
          \/ present /\ fieldSchema.type /= "any" /\ fieldSchema.type /= ActualType(value)
          \/ present /\ fieldSchema.validate = "positive" /\ ~(value.k = "num" /\ value.n > 0)

(* C15: assertFact given fact data whose type is missing, not a string or  *)
(* blank, or which violates the schema of its type, returns null, stores  *)
(* no fact, consumes no identity, pushes no task, and emits engine:error   *)
(* or engine:schemaError.                                                  *)
C15_RejectedFactLeavesNoTrace ==
    [][(/\ probe'.out /= <<>>
        /\ probe'.out[1].op = "assertFact"
        /\ TypeRejected(probe'.out[1].arg) \/ ViolatesSchema(probe'.out[1].arg))
       => /\ probe'.out[1].ret = 0
          /\ probe'.out[1].event \in {"engine:error", "engine:schemaError"}
          /\ UNCHANGED <<facts, alphaNetwork, factIdCounter, agenda>>]_vars

(* both kinds of rejection have happened next to a stored fact: the last  *)
(* call was rejected by the schema, and the store and agenda hold a fact   *)
C15_Witness ==
    /\ probe.op = "api" /\ probe.out /= <<>>
    /\ probe.out[1].op = "assertFact"
    /\ ViolatesSchema(probe.out[1].arg)
    /\ probe.out[1].event = "engine:schemaError"
    /\ probe.out[1].ret = 0
    /\ facts /= <<>> /\ agenda /= <<>>
    /\ factIdCounter = Cardinality(DOMAIN facts)

----------------------------------------------------------------------------
(* Properties of the matcher                                               *)

(* C16: with ?x already bound to v, match('?x', w, bindings) succeeds only *)
(* when w equals v, and on failure the returned bindings still map ?x to   *)
(* v, whatever kind of value v is.                                         *)
C16_BoundVariableMatchesOnlyEqual ==
    (/\ probe.op = "match" /\ probe.done
     /\ probe.in[1] = Str("?x")
     /\ "?x" \in DOMAIN probe.in[3])
    => LET v == probe.in[3]["?x"]
           w == probe.in[2]
       IN /\ probe.out.isMatch => w = v
          /\ ~probe.out.isMatch => probe.out.bindings["?x"] = v

(* the elements an array pattern names agree with the values at their     *)
(* positions: a literal equals its value, and a variable has one value     *)
ElementsAgree(patterns, values) ==
    /\ \A i \in 1..Len(patterns) : patterns[i].k = "num" => values[i] = patterns[i]
    /\ \A i \in 1..Len(patterns), j \in 1..Len(patterns) :
          (patterns[i] = Str("?a") /\ patterns[j] = Str("?a")) => values[i] = values[j]

RestMarkers(p) == {i \in 1..Len(p) : p[i] = Str("...?r")}

(* C17: an array pattern with exactly one rest marker, h elements before   *)
(* and t after it, matches an array exactly when the array has at least    *)
(* h+t elements whose first h and last t match positionally, and then the  *)
(* rest variable holds the middle slice; two or more rest markers never    *)
(* match.                                                                  *)
C17_RestMarkerSplitsHeadAndTail ==
    (/\ probe.op = "match" /\ probe.done
     /\ probe.in[1].k = "arr" /\ probe.in[2].k = "arr")
    => LET p == probe.in[1].items
           f == probe.in[2].items
           rests == RestMarkers(p)
       IN /\ Cardinality(rests) >= 2 => ~probe.out.isMatch
          /\ Cardinality(rests) = 1 =>
                LET r == Min(rests)
                    h == r - 1
                    t == Len(p) - r
                    fits == /\ Len(f) >= h + t
                            /\ ElementsAgree(SubSeq(p, 1, h) \o SubSeq(p, r + 1, Len(p)),
                                             SubSeq(f, 1, h) \o SubSeq(f, Len(f) - t + 1, Len(f)))
                IN /\ probe.out.isMatch <=> fits
                   /\ probe.out.isMatch =>
                         probe.out.bindings["?r"] =
                             JsArray([i \in 1..(Len(f) - h - t) |-> f[h + i]])

(* a pattern with a head, a rest marker and a tail has matched an array   *)
(* with a non-empty middle                                                 *)
C17_Witness ==
    /\ probe.op = "match" /\ probe.done /\ probe.out.isMatch
    /\ probe.in[1].k = "arr" /\ probe.in[2].k = "arr"
    /\ LET p == probe.in[1].items
       IN /\ Len(p) = 3 /\ RestMarkers(p) = {2}
          /\ Len(probe.in[2].items) = 3
          /\ probe.out.bindings["?r"] = JsArray(<< probe.in[2].items[2] >>)

----------------------------------------------------------------------------
(* Properties of the condition join                                        *)

(* the matches of rule R5 (a fact of type A, and no fact of type B with   *)
(* the same value), and the matches of its pattern condition alone         *)
LacksJoin == checkRule(Heap, "R5", RuleDef("R5").when, <<>>, {})
PatternJoin == checkRule(Heap, "R5", << Head(RuleDef("R5").when) >>, <<>>, {})

StoredOfTypeWithValue(type, val) ==
    {id \in DOMAIN facts : facts[id].fact.type = type /\ Num(facts[id].fact.v) = val}

(* C18: a lacks condition lets a branch of the join continue exactly when *)
(* no stored fact of the kind it names matches its pattern under the      *)
(* bindings so far, and the branch continues with the bindings and the    *)
(* consumed set it came with.                                              *)
C18_LacksContinuesIffNoMatch ==
    LacksJoin = SelectSeq(PatternJoin,
                          LAMBDA m : StoredOfTypeWithValue("B", m.bindings["?v"]) = {})

(* rule R5 has fired for a fact of type A while a fact of type B with      *)
(* another value was stored; a fact of type B with the same value has come *)
(* since, and the join is now empty                                        *)
C18_Witness ==
    /\ \E d \in Drains : cur[d].rule = "R5" /\ cur[d].consumed /= {}
    /\ PatternJoin /= <<>>
    /\ LacksJoin = <<>>
    /\ StoredOfTypeWithValue("B", Num(0)) /= {}
    /\ StoredOfTypeWithValue("B", Num(1)) /= {}

(* the step processes the retract task of a fact of the given type *)
RetractOfType(d, type) == RetractTaskStep(d) /\ Head(agenda).fact.type = type

(* C19: the facts that only an accumulator or lacks condition matched (in *)
(* rules R5 and R6: those of type B) are in no activation's consumed set, *)
(* and processing the retraction of one retracts no logical fact and      *)
(* drops no activation; processing the retraction of a fact matched by a  *)
(* pattern condition removes the logical facts its activations produced.  *)
C19_OnlyPatternFactsAreConsumed ==
    /\ [](\A a \in DOMAIN activations : \A id \in activations[a].consumed :
             id \in DOMAIN facts => facts[id].fact.type = "A")
    /\ [][\A d \in Drains :
            /\ RetractOfType(d, "B") =>
                  /\ facts' = facts
                  /\ activations' = activations
                  /\ tmsRetracted' = tmsRetracted
            /\ RetractOfType(d, "A") =>
                  \A a \in DOMAIN activations :
                      Head(agenda).fact._id \in activations[a].consumed =>
                          \A g \in activations[a].produced :
                              RetractableBy(Heap, a, g) => g \notin DOMAIN facts'
       ]_vars

(* the retraction of a fact of type B is about to be processed: rule R6   *)
(* counted it for a fact of type A with the same value, and the logical   *)
(* fact that activation produced is stored                                 *)
C19_Witness ==
    /\ \E d \in Drains : pc[d] = "loop"
    /\ agenda /= <<>>
    /\ Head(agenda).type = "retract"
    /\ Head(agenda).fact.type = "B"
    /\ \E a \in DOMAIN activations :
          /\ activations[a].ruleId = "R6"
          /\ \E g \in activations[a].produced :
                /\ RetractableBy(Heap, a, g)
                /\ Head(agenda).fact._id < g
                /\ \A id \in activations[a].consumed :
                      /\ id \in DOMAIN facts
                      /\ id < Head(agenda).fact._id
                      /\ facts[id].fact.v = Head(agenda).fact.v

----------------------------------------------------------------------------
(* Properties of the queries                                               *)

(* the stored facts of type B, oldest first, that query Q1 finds when     *)
(* called with the given bindings                                          *)
FoundByQ1(initialBindings) ==
    SortedSeq({id \in DOMAIN facts :
                  /\ facts[id].fact.type = "B"
                  /\ "?v" \in DOMAIN initialBindings =>
                        Num(facts[id].fact.v) = initialBindings["?v"]})

(* what a query returns for the facts found: queryAll the bound variables *)
(* of each, queryOne the bindings of the first, queryExists whether any    *)
ExpectedResult(call) ==
    LET ids == IF call.queryId = "Q1" THEN FoundByQ1(call.initialBindings) ELSE <<>>
    IN CASE call.op = "queryAll" ->
               [i \in 1..Len(ids) |-> [x \in {"?v"} |-> Num(facts[ids[i]].fact.v)]]
         [] call.op = "queryOne" ->
               IF ids = <<>> THEN <<>>
               ELSE << [x \in {"?v", "b", "?b"} |->
                          IF x = "?v" THEN Num(facts[ids[1]].fact.v)
                          ELSE FactVal(facts[ids[1]].fact)] >>
         [] call.op = "queryExists" -> ids /= <<>>

(* C20: queryAll, queryOne and queryExists change neither working memory, *)
(* nor the agenda, nor the tracked activations, nor the definitions, fire *)
(* no rule and enqueue no task; the result is computed from the facts      *)
(* stored when the query is called, whether or not their assert tasks      *)
(* have been processed.                                                    *)
C20_QueriesOnlyRead ==
    [][probe' /= probe =>
          /\ UNCHANGED <<facts, alphaNetwork, factIdCounter, agenda, activations,
                         activationCounter, definitions, pc, cur, lastFired, taskSeq>>
          /\ probe'.out[2] = ExpectedResult(probe'.out[1])
      ]_vars

(* queryAll has returned every stored fact of type B while the assert task *)
(* of one of them was still waiting on the agenda                          *)
C20_Witness ==
    /\ probe.out /= <<>>
    /\ probe.out[1].op = "queryAll"
    /\ probe.out[1].initialBindings = <<>>
    /\ Len(probe.out[2]) = Cardinality({id \in DOMAIN facts : facts[id].fact.type = "B"})
    /\ Len(probe.out[2]) >= 2
    /\ \E i \in 1..Len(agenda) :
          /\ agenda[i].type = "assert"
          /\ agenda[i].fact.type = "B"
          /\ agenda[i].fact._id \in DOMAIN facts
    /\ \E d \in Drains : pc[d] = "then"

----------------------------------------------------------------------------
(* Properties of query results                                             *)

Shaped == probe.op = "query" /\ probe.done
ShapeQuery == probe.in[1]
ShapeRows == probe.in[2]

(* the sort key of a returned row, and the position of its match in the join *)
SortKey(row) == resolvePath(row, ShapeQuery.orderBy.key)
JoinOrder(row) == IF "n" \in DOMAIN row THEN row["n"].n
                  ELSE IF "?n" \in DOMAIN row THEN row["?n"].n ELSE 0

UndefinedKeysLast(rows) ==
    \A i, j \in 1..Len(rows) :
        i < j => ~(SortKey(rows[i]) = Undefined /\ SortKey(rows[j]) /= Undefined)

TiesKeepJoinOrder(rows) ==
    \A i, j \in 1..Len(rows) :
        i < j /\ SortKey(rows[i]) = SortKey(rows[j]) => JoinOrder(rows[i]) <= JoinOrder(rows[j])

(* C21: when queryAll sorts by an order key, in the asc and in the desc     *)
(* direction alike, no row whose sort key is undefined or missing comes     *)
(* before a row whose key is defined, and rows with equal keys keep the     *)
(* order of the join.                                                       *)
C21_UndefinedSortKeysComeLast ==
    Shaped /\ ShapeQuery.orderBy.present =>
        UndefinedKeysLast(probe.out.all) /\ TiesKeepJoinOrder(probe.out.all)

(* the projected and sorted result set, before offset and limit *)
FullResultSet ==
    queryAllResults([ShapeQuery EXCEPT !.offset = Undefined, !.limit = Undefined], ShapeRows)

OffsetAndLimitGiven == ShapeQuery.offset.k = "num" /\ ShapeQuery.limit.k = "num"

(* C22: with offset k and limit m, queryAll returns exactly rows k to      *)
(* k+m-1 (counting from 0) of the projected and sorted result set: as many *)
(* of them as exist, none when k is at least the number of rows, none when *)
(* m is 0.                                                                 *)
C22_OffsetThenLimit ==
    Shaped /\ OffsetAndLimitGiven =>
        LET k == ShapeQuery.offset.n
            m == ShapeQuery.limit.n
            rest == IF Len(FullResultSet) > k THEN Len(FullResultSet) - k ELSE 0
        IN /\ Len(probe.out.all) = (IF m < rest THEN m ELSE rest)
           /\ \A i \in 1..Len(probe.out.all) : probe.out.all[i] = FullResultSet[k + i]

(* an ordered query over three rows returns the second and the third *)
C22_Witness ==
    /\ Shaped /\ OffsetAndLimitGiven
    /\ ShapeQuery.orderBy.present
    /\ ShapeQuery.offset.n = 1 /\ ShapeQuery.limit.n = 2
    /\ Len(FullResultSet) = 3
    /\ probe.out.all = << FullResultSet[2], FullResultSet[3] >>
    /\ FullResultSet[2] /= FullResultSet[3]

(* a projection alone: select, with no ordering, offset or limit *)
ProjectionOnly ==
    /\ Shaped /\ ShapeQuery.select.present /\ ~ShapeQuery.orderBy.present
    /\ ShapeQuery.offset = Undefined /\ ShapeQuery.limit = Undefined

Unbound(template, bindings) == template.tag = "var" /\ template.name \notin DOMAIN bindings

ExpectedField(template, bindings) ==
    IF template.tag = "lit" THEN template.val
    ELSE IF Unbound(template, bindings) THEN Undefined ELSE bindings[template.name]

ErrorsFor(key) == SelectSeq(probe.out.events, LAMBDA e : e.projectionKey = key)

(* C23: a select field that names an unbound variable is undefined in the  *)
(* row of that match; every other field of the row, and every other row,   *)
(* holds its resolved value; one row is returned per match, and one        *)
(* engine:projectionError is emitted per unresolved field.                 *)
C23_UnboundProjectionFieldIsUndefined ==
    ProjectionOnly =>
        LET fields == ShapeQuery.select.fields
        IN /\ Len(probe.out.all) = Len(ShapeRows)
           /\ \A i \in 1..Len(ShapeRows) : \A f \in 1..Len(fields) :
                  /\ fields[f][1] \in DOMAIN probe.out.all[i]
                  /\ probe.out.all[i][fields[f][1]] = ExpectedField(fields[f][2], ShapeRows[i])
           /\ \A f \in 1..Len(fields) :
                  Len(ErrorsFor(fields[f][1])) =
                      Cardinality({i \in 1..Len(ShapeRows) : Unbound(fields[f][2], ShapeRows[i])})
           /\ \A e \in Range(probe.out.events) : e.event = "engine:projectionError"

(* two matches, ?k unbound in the first only *)
C23_Witness ==
    /\ ProjectionOnly
    /\ Len(ShapeRows) = 2
    /\ "?k" \notin DOMAIN ShapeRows[1] /\ "?k" \in DOMAIN ShapeRows[2]
    /\ probe.out.all = << [x \in {"n", "k"} |-> IF x = "n" THEN Num(1) ELSE Undefined],
                          [x \in {"n", "k"} |-> IF x = "n" THEN Num(2) ELSE Num(1)] >>
    /\ probe.out.events = << ProjectionError("k") >>

(* C24: a query built with distinct() returns no two rows that agree on    *)
(* every projected field.                                                  *)
C24_DistinctRemovesDuplicateRows ==
    Shaped /\ ShapeQuery.distinct /\ ShapeQuery.select.present =>
        \A i, j \in 1..Len(probe.out.all) : i /= j => probe.out.all[i] /= probe.out.all[j]

(* C25: queryOne returns the first element of the list queryAll returns    *)
(* for the same query, working memory and initial bindings, or null when   *)
(* that list is empty.                                                     *)
C25_QueryOneIsFirstOfQueryAll ==
    Shaped =>
        probe.out.one = (IF probe.out.all = <<>> THEN Null ELSE probe.out.all[1])

----------------------------------------------------------------------------
(* Properties of guard evaluation                                          *)

GuardEvaluated == probe.op = "guard" /\ probe.done

ReferencesUnbound(guard, bindings) ==
    \E i \in 2..Len(guard) : guard[i].tag = "var" /\ guard[i].name \notin DOMAIN bindings

GuardPasses == ~probe.out.err /\ Truthy(probe.out.val)

(* C26: evaluating a guard that references a variable absent from the      *)
(* bindings raises an error, so that the guard does not pass.              *)
C26_UnboundVariableInGuardRaises ==
    GuardEvaluated /\ ReferencesUnbound(probe.in[1], probe.in[2]) =>
        probe.out.err /\ ~GuardPasses

----------------------------------------------------------------------------
(* Properties of the event emitter                                         *)

(* C27: emit(event) calls the listeners that were registered when it       *)
(* began, each once and in registration order: a listener that throws      *)
(* does not stop the later ones, and a listener that removes itself (or    *)
(* another) during the dispatch causes none to be skipped or called twice. *)
C27_EmitCallsEveryListenerOnce ==
    [][CallEmit("e") => probe'.out = EmitLog("e", probe.in)]_vars

(* a listener removed itself, and the throwing and the plain listener      *)
(* behind it were still called                                             *)
C27_Witness ==
    /\ probe.op = "emitter"
    /\ probe.out = EmitLog("e", << "offSelf", "throws", "plain" >>)
    /\ probe.in = << "throws", "plain" >>

----------------------------------------------------------------------------
(* Properties of the fact store's input check                              *)

(* the fact has no type, a type that is not a string, or the empty type *)
TypeMissingOrEmpty(f) == f[1].k /= "str" \/ f[1] = Str("")

(* C28: FactStorage.assert of a fact whose type is missing, not a string   *)
(* or the empty string assigns no identity and leaves the primary map and  *)
(* the type index as they were.                                            *)
C28_AssertRejectsBadType ==
    [][\A f \in StoreInputs :
          TypeMissingOrEmpty(f) /\ StoreAssert(f) =>
              UNCHANGED <<facts, alphaNetwork, factIdCounter, probe>>]_vars

----------------------------------------------------------------------------
(* Properties of the accumulators                                          *)

Accumulated == probe.op = "accumulate" /\ probe.done

FieldOfFact(i) == IF "amount" \in DOMAIN probe.in[i] THEN probe.in[i]["amount"] ELSE Undefined

(* the facts whose field is counted, and what each contributes *)
CountedFacts == {i \in 1..Len(probe.in) : FieldOfFact(i).k \in {"num", "bool"}}
Contribution(i) ==
    IF FieldOfFact(i).k = "bool" THEN (IF FieldOfFact(i).b THEN 1 ELSE 0) ELSE FieldOfFact(i).n

RECURSIVE TotalOver(_)
TotalOver(S) ==
    IF S = {} THEN 0 ELSE LET i == CHOOSE x \in S : TRUE IN Contribution(i) + TotalOver(S \ {i})

(* C29: sum(field) is the total of the field over the facts where it is a  *)
(* number or a boolean (true 1, false 0), 0 for no facts; average(field)   *)
(* is that total divided by the number of facts so counted, and 0 when     *)
(* none is counted.                                                        *)
C29_SumAndAverageSkipNonNumeric ==
    Accumulated =>
        /\ probe.out.sum = Num(TotalOver(CountedFacts))
        /\ probe.out.average =
              (IF CountedFacts = {} THEN Num(0)
               ELSE Quotient(TotalOver(CountedFacts), Cardinality(CountedFacts)))
        /\ probe.out.average.k = "num"

(* true, a string and 2: the sum is 3 and the average 3/2 *)
C29_Witness ==
    /\ Accumulated
    /\ Len(probe.in) = 3
    /\ FieldOfFact(1) = Bool(TRUE) /\ FieldOfFact(2) = Str("abc") /\ FieldOfFact(3) = Num(2)
    /\ probe.out.sum = Num(3)
    /\ probe.out.average = [k |-> "num", n |-> 3, d |-> 2]

----------------------------------------------------------------------------
(* Properties of conditions written as { type: K }                         *)

StoredOfType(type) == {id \in DOMAIN facts : facts[id].fact.type = type}

TypeKeyLacksJoin == checkRule(Heap, "R7", RuleDef("R7").when, <<>>, {})
TypeKeyCountJoin == checkRule(Heap, "R8", RuleDef("R8").when, <<>>, {})

(* C30: with its source pattern written { type: K }, a lacks condition     *)
(* fails the branch whenever a fact of kind K is stored, and a counting    *)
(* accumulator binds its variable to the number of stored facts of kind K. *)
C30_TypeKeyPatternScansKind ==
    /\ StoredOfType("B") /= {} => TypeKeyLacksJoin = <<>>
    /\ \A i \in 1..Len(TypeKeyCountJoin) :
          TypeKeyCountJoin[i].bindings["?c"] = Num(Cardinality(StoredOfType("B")))

----------------------------------------------------------------------------
(* Properties of post-conditions                                           *)

PostConditionsEvaluated(d) == cur'[d].postChecks > cur[d].postChecks

(* C31: the post-conditions of a rule are evaluated only in the step in    *)
(* which its then action returns without throwing: not when the action     *)
(* throws and no handler takes the error, and not after a throws handler   *)
(* has run.                                                                *)
C31_PostConditionsOnlyAfterSuccess ==
    [][\A d \in Drains :
          PostConditionsEvaluated(d) => pc[d] = "then" /\ cur'[d].outcome = "ok"]_vars

----------------------------------------------------------------------------
(* Properties of fireAll                                                   *)

FireAllRunning == pc[1] /= "idle"

(* C32: with rule R1, whose condition names type A and whose action        *)
(* asserts one fact of type B and retracts nothing, every drain that is    *)
(* started ends: the agenda becomes empty and run() returns.               *)
C32_FireAllTerminates ==
    FireAllRunning ~> (pc[1] = "idle" /\ agenda = <<>>)

----------------------------------------------------------------------------
(* Properties of matching per task                                         *)

(* the step takes an assert task from the agenda and fires an activation *)
FiresForAssertTask == activationCounter' /= activationCounter /\ Head(agenda).type = "assert"

(* C33: when the run loop fires an activation while it processes the       *)
(* assert task of a fact, the identity of that fact is in the consumed set *)
(* of the activation.                                                      *)
C33_FiredMatchUsesTheTaskFact ==
    [][FiresForAssertTask =>
          Head(agenda).fact._id \in activations'[activationCounter'].consumed]_vars

----------------------------------------------------------------------------
(* Properties of the justification of logical facts                        *)

LogicalFacts == {id \in DOMAIN facts : facts[id].metadata.logical}

Justified(id) ==
    LET producedBy == facts[id].metadata.producedBy
    IN /\ producedBy \in DOMAIN activations
       /\ id \in activations[producedBy].produced
       /\ activations[producedBy].consumed \subseteq DOMAIN facts

(* C34: once a drain has emptied the agenda, every stored fact marked      *)
(* logical has a producedBy activation that is in the table of tracked     *)
(* activations, whose produced set holds the fact and whose consumed facts *)
(* are all stored.                                                         *)
C34_LogicalFactsAreJustified ==
    Drained => \A id \in LogicalFacts : Justified(id)

(* a drain has ended; a logical fact is stored together with the fact its  *)
(* activation consumed, and a retract task has been processed on the way   *)
C34_Witness ==
    /\ Drained
    /\ \A d \in Drains : pc[d] = "idle"
    /\ Cardinality(DOMAIN facts) < factIdCounter
    /\ \E id \in LogicalFacts :
          /\ Justified(id)
          /\ activations[facts[id].metadata.producedBy].consumed /= {}


----------------------------------------------------------------------------
(* Properties of modifyFact under schema validation                        *)

(* the step is a call of modifyFact on a stored fact whose merged fact is *)
(* rejected by the validation of assertFact                               *)
ModifyRejectedStep == ModifyStoredStep /\ ~probe'.out[1].ok

(* C35: modifyFact is all-or-nothing with respect to validation: when the  *)
(* merged fact fails schema validation on re-assert, working memory and    *)
(* the agenda are as before the call (the original fact is still stored    *)
(* under its identity and no retract task was enqueued).                   *)
C35_ModifyFactAllOrNothing ==
    [][ModifyRejectedStep => (facts' = facts /\ alphaNetwork' = alphaNetwork
                              /\ agenda' = agenda)]_vars


----------------------------------------------------------------------------
(* Properties of exceptions raised while matching                          *)

(* C36: an exception raised while a rule's conditions are evaluated during *)
(* matching (an accumulator naming an unregistered operator) does not make *)
(* run() or fireAll() throw: no call of run() ends in an exception.        *)
C36_MatchingErrorsAreContained == \A i \in 1..Len(probe.out) : probe.out[i].op /= "run"


----------------------------------------------------------------------------
(* Properties of facts re-asserted by modifyFact and updateFact            *)

ReassertedFacts == {probe.out[i].new : i \in 1..Len(probe.out)}

(* C37: a fact re-asserted by modifyFact or updateFact carries no logical  *)
(* justification: its metadata is not marked logical and it is in no       *)
(* tracked activation's produced set, also when the original was logical   *)
(* or the call came through a rule's context; truth maintenance never      *)
(* retracts it.                                                            *)
C37_ModifiedFactIsNotLogical ==
    \A id \in ReassertedFacts :
        /\ id \in DOMAIN facts => ~facts[id].metadata.logical
        /\ \A a \in DOMAIN activations : id \notin activations[a].produced
        /\ id \notin tmsRetracted

(* a logical fact was modified through a rule's context or by the caller, *)
(* the facts its activation consumed have been retracted and truth        *)
(* maintenance has run for them, and the modified fact is still stored    *)
C37_Witness ==
    /\ Drained
    /\ \E i \in 1..Len(probe.out) :
          LET old == probe.out[i].old
              id == probe.out[i].new
          IN /\ probe.out[i].via = "context"
             /\ old \in DOMAIN justif
             /\ justif[old] /= {}
             /\ justif[old] \cap DOMAIN facts = {}
             /\ id \in DOMAIN facts


----------------------------------------------------------------------------
(* Properties of the rest variable of an array pattern                     *)

(* the call matched an array pattern with one rest marker against an array *)
RestMatched ==
    /\ probe.op = "match" /\ probe.done /\ probe.out.isMatch
    /\ probe.in[1].k = "arr" /\ probe.in[2].k = "arr"
    /\ Cardinality({i \in 1..Len(probe.in[1].items) : isRestMarker(probe.in[1].items[i])}) = 1

(* the middle slice of the fact: what is left between head and tail *)
MiddleSlice ==
    LET p == probe.in[1].items
        restOperatorIndex == CHOOSE i \in 1..Len(p) : isRestMarker(p[i])
    IN JsArray(SubSeq(probe.in[2].items, restOperatorIndex,
                      Len(probe.in[2].items) - (Len(p) - restOperatorIndex)))

(* C38: the rest-variable binding respects binding consistency: when the   *)
(* rest variable is already bound by the incoming bindings, the match      *)
(* succeeds only when the middle slice equals the bound value, and the     *)
(* existing binding is never overwritten.                                  *)
C38_RestBindingIsConsistent ==
    (RestMatched /\ "?r" \in DOMAIN probe.in[3]) =>
        /\ MiddleSlice = probe.in[3]["?r"]
        /\ probe.out.bindings["?r"] = probe.in[3]["?r"]


----------------------------------------------------------------------------
(* Properties of the fact store's type index                               *)

StoredTypes == DOMAIN alphaNetwork \cup {facts[id].fact.type : id \in DOMAIN facts}

(* the identities getFactsByType(k) returns *)
ReturnedByType(k) == Range(getFactsByType(Heap, k))

(* C39: after any sequence of assert, retract and clear the type index and *)
(* the primary map agree: getFactsByType(k) returns a fact exactly when    *)
(* getFactEntry finds it and its type is k; each stored fact is returned   *)
(* once, under one type; and no type is left with an empty bucket.         *)
C39_TypeIndexAgreesWithPrimaryMap ==
    /\ \A k \in StoredTypes :
          /\ ReturnedByType(k) = {id \in DOMAIN facts : facts[id].fact.type = k}
          /\ Cardinality(ReturnedByType(k)) = Len(getFactsByType(Heap, k))
    /\ \A id \in DOMAIN facts :
          Cardinality({k \in StoredTypes : id \in ReturnedByType(k)}) = 1
    /\ \A k \in DOMAIN alphaNetwork : alphaNetwork[k] /= <<>>

(* after a clear, facts of two types were asserted and the only fact of a *)
(* third bucket was retracted                                             *)
C39_Witness ==
    /\ probe.op = "store" /\ probe.out /= <<>>
    /\ probe.out[1].op = "clear"
    /\ \E i \in 1..Len(probe.out) : probe.out[i].op = "retract"
    /\ Cardinality(DOMAIN facts) = 2
    /\ Cardinality(DOMAIN alphaNetwork) = 2


----------------------------------------------------------------------------
(* Properties of the alias bindings of the condition join                  *)

(* the pattern conditions of the rule a drain is firing *)
FiredPatterns(d) ==
    LET when == RuleDef(cur[d].rule).when
    IN {when[i] : i \in {j \in 1..Len(when) : when[j].kind = "pattern"}}

(* C40: in every result the condition join yields, for each pattern        *)
(* condition with alias a, bindings[a] and bindings['?' + a] are both the  *)
(* stored fact that matched, whatever the pattern's variables were bound   *)
(* to.  Stated on the bindings of the activation a drain fires.            *)
C40_AliasBindingsHoldTheFact ==
    \A d \in Drains :
        pc[d] = "then" =>
            \A condition \in FiredPatterns(d) :
                LET b == cur[d].bindings
                    a == condition.alias
                IN /\ a \in DOMAIN b /\ ("?" \o a) \in DOMAIN b
                   /\ b[a].k = "fact"
                   /\ b[a].f._id \in cur[d].consumed
                   /\ b[a].f.type = condition.type
                   /\ b["?" \o a] = b[a]

====
